---- MODULE Spec2Model ----
(***************************************************************************)
(* Model of the hourly up/down arbitrage tracker (backend/).               *)
(*                                                                         *)
(*  - calculate_arbitrage_logic (backend/api.py): the matching engine that *)
(*    joins the venue-A (Kalshi) strike list with the venue-B (Polymarket) *)
(*    Up/Down quotes against the reference price (price_to_beat).          *)
(*  - MarketURLGenerator (backend/tracker/market_generator.py): the        *)
(*    translation of clock time + hour offset into both venues' market     *)
(*    identifiers, including the discovery step of get_market_pair.        *)
(*  - PriceFetcher (backend/services/price_fetcher.py): the resolver of    *)
(*    the reference price, its source chain and its hourly cache.          *)
(*  - background_aggregator (backend/api.py): the evaluation cycle that    *)
(*    reads the streams, resolves the reference price, runs the engine and *)
(*    publishes the result, and its timers and stream tasks.               *)
(*  - KalshiClient._request_with_retry (backend/tracker/api_clients.py),   *)
(*    KalshiStream (backend/websocket/kalshi_stream.py) and                *)
(*    PolymarketStream (backend/websocket/polymarket_stream.py): the       *)
(*    transport of the two venues.                                         *)
(*                                                                         *)
(* Units.  Prices are in cents of the payout unit: a venue-A ask is the    *)
(* integer the API reports (yes_ask, 0..100) and the code's "/ 100.0" is   *)
(* kept implicit; a venue-B ask of 0.45 is 45.  The payout unit 1.00 is    *)
(* PayoutUnit.  Strikes, the reference price and gaps are in dollars.      *)
(* Times are whole hours counted from January 1st 00:00 local time         *)
(* (US/Eastern, winter: UTC-5 throughout), plus the minute, second and     *)
(* microsecond of the clock.                                               *)
(***************************************************************************)
EXTENDS Integers, Sequences, FiniteSets, TLC

VARIABLES
    poly_data,      \* argument of calculate_arbitrage_logic (venue B)
    kalshi_data,    \* argument of calculate_arbitrage_logic (venue A)
    config,         \* CRYPTO_CONFIGS.get(asset): the gap bounds read by the engine
    response,       \* the dict calculate_arbitrage_logic returns
    now,            \* the wall clock read by get_current_time
    kalshi_listing, \* what get_markets_by_event answers (venue-A listing)
    market_pairs,   \* hours_offset -> the dict get_market_pair returned for it
    target_hours,   \* current_hour_offset -> the dict get_target_hours returned
    next_tradeable, \* the dict get_next_tradeable_market returned
    price_clock,    \* datetime.now() read by the resolver, in whole hours
    last_hour,      \* PriceFetcher._last_hour
    cache,          \* PriceFetcher._cache: asset -> PriceResult
    last_called,    \* asset -> clock hour of its latest get_price_to_beat call
    price_call,     \* the latest get_price_to_beat call: sources tried, result
    latest,         \* what the two streams hold for the asset
    price_result,   \* the PriceResult the evaluation cycle received
    published,      \* what ws_manager.broadcast was given
    evaluation_phase, \* the evaluation loop of one iteration, asset by asset
    request,        \* one call of KalshiClient._request_with_retry
    kalshi_stream,  \* the KalshiStream singleton and its polling loop
    polymarket_stream, \* the PolymarketStream singleton and its loop
    aggregator      \* background_aggregator and the event loop's tasks

engineVars == <<poly_data, kalshi_data, config, response>>
windowVars == <<now, kalshi_listing, market_pairs>>
hoursVars == <<target_hours, next_tradeable>>
priceVars == <<price_clock, last_hour, cache, last_called, price_call>>
cycleVars == <<latest, price_result, published, evaluation_phase>>

transportVars == <<request, kalshi_stream, polymarket_stream, aggregator>>
coreVars == <<engineVars, windowVars, hoursVars, priceVars, cycleVars>>

vars == <<coreVars, transportVars>>

(***************************************************************************)
(* Bounds and input samples                                                *)
(***************************************************************************)
MaxMarkets == 2

PayoutUnit == 100

Strikes == {94000, 95000, 96000}
PricesToBeat == {95000, 95050}

KalshiYesAsks == {0, 40}
KalshiNoAsks == {50, 100}
KalshiYesCounts == {5}
KalshiNoCounts == {2}

PolyAsks == {0, 45, 60, 100}
PolyBids == {20}
PolySizes == {0, 3}

\* config is None for an asset that is not in CRYPTO_CONFIGS
NoConfig == [has_config |-> FALSE, min_gap |-> 0, max_gap |-> 0]
Configs == {NoConfig,
            [has_config |-> TRUE, min_gap |-> 0, max_gap |-> 2000],
            [has_config |-> TRUE, min_gap |-> 50, max_gap |-> 1000]}

Min(a, b) == IF a <= b THEN a ELSE b
Abs(x) == IF x < 0 THEN -x ELSE x

(***************************************************************************)
(* Inputs of the engine, as background_aggregator builds them              *)
(***************************************************************************)
PolyQuotes == [ask : PolyAsks, bid : PolyBids, size : PolySizes]

KalshiMarkets ==
    [strike : Strikes, yes_ask : KalshiYesAsks, no_ask : KalshiNoAsks,
     yes_count : KalshiYesCounts, no_count : KalshiNoCounts]

\* poly_data of background_aggregator: the counts are the sizes of the two
\* outcome quotes (an outcome the stream has no quote for reads as 0 / 0).
BuildPolyData(price_to_beat, up, down) ==
    [present |-> TRUE,
     price_to_beat |-> price_to_beat,
     prices |-> [Up |-> up, Down |-> down],
     up_count |-> up.size,
     down_count |-> down.size]

NoPolyData ==
    [present |-> FALSE, price_to_beat |-> 0,
     prices |-> [Up |-> [ask |-> 0, bid |-> 0, size |-> 0],
                 Down |-> [ask |-> 0, bid |-> 0, size |-> 0]],
     up_count |-> 0, down_count |-> 0]

\* sorted(kalshi_markets, key=strike): stable insertion sort
RECURSIVE InsertByStrike(_, _)
InsertByStrike(m, sorted) ==
    IF sorted = <<>> THEN <<m>>
    ELSE IF m.strike < Head(sorted).strike THEN <<m>> \o sorted
    ELSE <<Head(sorted)>> \o InsertByStrike(m, Tail(sorted))

RECURSIVE SortByStrike(_)
SortByStrike(ms) ==
    IF ms = <<>> THEN <<>>
    ELSE InsertByStrike(ms[Len(ms)], SortByStrike(SubSeq(ms, 1, Len(ms) - 1)))

BuildKalshiData(markets) ==
    [present |-> TRUE, markets |-> SortByStrike(markets)]

NoKalshiData == [present |-> FALSE, markets |-> <<>>]

MarketLists ==
    UNION {[1..n -> KalshiMarkets] : n \in 0..MaxMarkets}

(***************************************************************************)
(* calculate_arbitrage_logic                                               *)
(***************************************************************************)
NoResponse == [computed |-> FALSE, checks |-> <<>>, opportunities |-> <<>>,
               errors |-> <<>>]

EmptyResponse == [computed |-> TRUE, checks |-> <<>>, opportunities |-> <<>>,
                  errors |-> <<>>]

\* is_valid_price: both venue-A asks strictly between 0 and 100 cents
IsValidPrice(km) ==
    km.yes_ask > 0 /\ km.no_ask > 0 /\ km.yes_ask < 100 /\ km.no_ask < 100

MinGapOf(cfg) == IF cfg.has_config THEN cfg.min_gap ELSE 0

\* the upper bound alone, as in the logging filter "is_in_gap = gap <= max_gap"
InGapRange_MaxOnly(gap, cfg) == cfg.has_config => Abs(gap) <= cfg.max_gap

\* min_gap <= gap_abs <= max_gap, with max_gap = inf when there is no config
InGapRange(gap, cfg) ==
    MinGapOf(cfg) <= Abs(gap) /\ (cfg.has_config => Abs(gap) <= cfg.max_gap)

\* check_data as initialised for one strike
InitialCheck(km, pd) ==
    [kalshi_strike |-> km.strike,
     kalshi_yes |-> km.yes_ask,
     kalshi_no |-> km.no_ask,
     gap |-> Abs(pd.price_to_beat - km.strike),
     type |-> "",
     poly_leg |-> "",
     kalshi_leg |-> "",
     poly_cost |-> 0,
     kalshi_cost |-> 0,
     total_cost |-> 0,
     is_arbitrage |-> FALSE,
     margin |-> 0,
     available_contracts |-> 0,
     kelly |-> [kind |-> "empty"]]

\* the comparison that decides the leg combination
CompareStrikes_Inverted(poly_strike, kalshi_strike) ==
    IF poly_strike < kalshi_strike THEN "Poly > Kalshi"
    ELSE IF poly_strike > kalshi_strike THEN "Poly < Kalshi"
    ELSE "Equal"

CompareStrikes(poly_strike, kalshi_strike) ==
    IF poly_strike > kalshi_strike THEN "Poly > Kalshi"
    ELSE IF poly_strike < kalshi_strike THEN "Poly < Kalshi"
    ELSE "Equal"

\* "Determine which leg combination we are checking", then total_cost
SelectLegs(km, pd) ==
    LET c == InitialCheck(km, pd)
        type == CompareStrikes(pd.price_to_beat, km.strike)
        legs ==
            IF type = "Poly > Kalshi" THEN
                [c EXCEPT !.type = type,
                          !.poly_leg = "Down",
                          !.kalshi_leg = "Yes",
                          !.poly_cost = pd.prices.Down.ask,
                          !.kalshi_cost = km.yes_ask,
                          !.available_contracts = Min(pd.down_count, km.yes_count)]
            ELSE IF type = "Poly < Kalshi" THEN
                [c EXCEPT !.type = type,
                          !.poly_leg = "Up",
                          !.kalshi_leg = "No",
                          !.poly_cost = pd.prices.Up.ask,
                          !.kalshi_cost = km.no_ask,
                          !.available_contracts = Min(pd.up_count, km.no_count)]
            ELSE
                \* Equal: no leg is set, and the total assigned here is
                \* overwritten by the common assignment that follows
                [c EXCEPT !.type = type,
                          !.total_cost = pd.prices.Down.ask + km.yes_ask,
                          !.available_contracts = Min(pd.down_count, km.yes_count)]
    IN  [legs EXCEPT !.total_cost = legs.poly_cost + legs.kalshi_cost]

IsProfitable(c) == 0 < c.total_cost /\ c.total_cost < PayoutUnit
IsValidPoly(c) == 0 < c.poly_cost /\ c.poly_cost < PayoutUnit
IsValidKalshi(c) == 0 < c.kalshi_cost /\ c.kalshi_cost < PayoutUnit
HasLiquidity(c) == c.available_contracts > 0

\* kelly_service.calculate_kelly(odds_b, 0.99) with odds_b = 1/total_cost - 1:
\* the call is recorded with its arguments, odds_b as the fraction
\* (PayoutUnit - total_cost) / total_cost and the confidence in percent.
CalculateKelly(c) ==
    [kind |-> "computed",
     odds_num |-> PayoutUnit - c.total_cost,
     odds_den |-> c.total_cost,
     confidence |-> 99]

TheoreticalKelly ==
    [kind |-> "THEORETICAL", kelly_fraction |-> 0, f_star_raw |-> 0]

ArbCondition_NoLiquidity(c) ==
    IsProfitable(c) /\ IsValidPoly(c) /\ IsValidKalshi(c)

\* the condition under which the profitability flags are set
ArbCondition(c) ==
    IsProfitable(c) /\ IsValidPoly(c) /\ IsValidKalshi(c) /\ HasLiquidity(c)

\* the staking call made before the profitability test
GradeInGap_AlwaysKelly(c) ==
    [c EXCEPT !.kelly = CalculateKelly(c),
              !.is_arbitrage = ArbCondition(c),
              !.margin = PayoutUnit - c.total_cost]

\* the body of "if min_gap <= gap_abs <= max_gap"
GradeInGap(c) ==
    IF ArbCondition(c) THEN
        [c EXCEPT !.kelly = CalculateKelly(c),
                  !.is_arbitrage = TRUE,
                  !.margin = PayoutUnit - c.total_cost]
    ELSE
        [c EXCEPT !.is_arbitrage = FALSE,
                  !.margin = PayoutUnit - c.total_cost,
                  !.kelly = TheoreticalKelly]

\* the matching loop over the sorted strikes
RECURSIVE MatchLoop(_, _, _, _)
MatchLoop(markets, pd, cfg, resp) ==
    IF markets = <<>> THEN resp
    ELSE
        LET km == Head(markets) IN
        IF ~IsValidPrice(km) THEN MatchLoop(Tail(markets), pd, cfg, resp)
        ELSE
            LET c == SelectLegs(km, pd)
                inGap == InGapRange(c.gap, cfg)
                graded == IF inGap THEN GradeInGap(c) ELSE c
            IN  MatchLoop(Tail(markets), pd, cfg,
                    [resp EXCEPT
                        !.opportunities = IF inGap THEN Append(@, graded) ELSE @,
                        !.checks = Append(@, graded)])

CalculateArbitrageLogic(pd, kd, cfg) ==
    IF ~pd.present \/ ~kd.present THEN EmptyResponse
    ELSE IF kd.markets = <<>> THEN
        [EmptyResponse EXCEPT !.errors = <<"No Kalshi markets found">>]
    ELSE MatchLoop(SortByStrike(kd.markets), pd, cfg, EmptyResponse)

(***************************************************************************)
(* MarketURLGenerator: clock, windows and identifiers                      *)
(*                                                                         *)
(* A datetime in the configured timezone is [hour, minute, second,         *)
(* microsecond]: hour counts whole hours since January 1st 00:00 local     *)
(* time of the modelled year.                                              *)
(***************************************************************************)
MaxOffset == 2
ClockSpan == 23
MaxListed == 3

\* the modelled clock starts on January 31st 00:00 local time
ClockStart == 30 * 24
\* US/Eastern in winter is UTC-5
UtcOffsetHours == 5

ClockMinutes == {0, 30, 54, 55, 59}
ClockSeconds == {0, 59}
ClockMicroseconds == {0, 999999}
Offsets == -1..MaxOffset
\* the clock readings within an hour: each minute on the minute, and the last
\* minute with every second and microsecond
SubHourReadings ==
    {[minute |-> m, second |-> 0, microsecond |-> 0] : m \in ClockMinutes} \cup
    {[minute |-> 59, second |-> sec, microsecond |-> u] :
        sec \in ClockSeconds, u \in ClockMicroseconds}
Clocks ==
    {[hour |-> h, minute |-> r.minute, second |-> r.second,
      microsecond |-> r.microsecond] :
        h \in ClockStart..(ClockStart + ClockSpan), r \in SubHourReadings}

\* a datetime on the hour
OnTheHour(h) == [hour |-> h, minute |-> 0, second |-> 0, microsecond |-> 0]

month_abbr == [m \in {1, 2} |-> IF m = 1 THEN "JAN" ELSE "FEB"]
month_full == [m \in {1, 2} |-> IF m = 1 THEN "january" ELSE "february"]

\* calendar fields of a datetime (January has 31 days)
DayIndex(t) == t.hour \div 24
MonthOf(t) == IF DayIndex(t) < 31 THEN 1 ELSE 2
DayOf(t) == IF DayIndex(t) < 31 THEN DayIndex(t) + 1 ELSE DayIndex(t) - 30
HourOf(t) == t.hour % 24

get_target_hours_NotRounded(clock, current_hour_offset) ==
    LET target_start == [clock EXCEPT !.hour = @ + current_hour_offset]
        target_end == [target_start EXCEPT !.hour = @ + 1]
    IN  [start |-> target_start,
         end |-> target_end,
         display_hour |-> HourOf(target_start)]

\* now.replace(minute=0, second=0, microsecond=0) + timedelta(hours=offset)
get_target_hours(clock, current_hour_offset) ==
    LET current_hour_start == [clock EXCEPT !.minute = 0, !.second = 0,
                                            !.microsecond = 0]
        target_start == [current_hour_start EXCEPT
                             !.hour = @ + current_hour_offset]
        target_end == [target_start EXCEPT !.hour = @ + 1]
    IN  [start |-> target_start,
         end |-> target_end,
         display_hour |-> HourOf(target_start)]

get_next_tradeable_market_After55(clock) ==
    IF clock.minute > 55
    THEN get_target_hours(clock, 1)
    ELSE get_target_hours(clock, 0)

\* past minute 55 the next hour is the tradeable one
get_next_tradeable_market(clock) ==
    IF clock.minute >= 55
    THEN get_target_hours(clock, 1)
    ELSE get_target_hours(clock, 0)

\* {SERIES}-{YY}{MON}{DD}
generate_event_ticker(series, target_time) ==
    [series |-> series, mon |-> month_abbr[MonthOf(target_time)],
     dd |-> DayOf(target_time)]

\* {SERIES}-{YY}{MON}{DD}{HH}
generate_kalshi_ticker(series, target_time) ==
    [series |-> series, mon |-> month_abbr[MonthOf(target_time)],
     dd |-> DayOf(target_time), hh |-> HourOf(target_time)]

\* {prefix}-{month-name}-{day}-{hour12}{am|pm}-et
generate_polymarket_slug(prefix, target_time) ==
    LET hour_24 == HourOf(target_time)
        hour_12 == IF hour_24 = 0 THEN 12
                   ELSE IF hour_24 < 12 THEN hour_24
                   ELSE IF hour_24 = 12 THEN 12
                   ELSE hour_24 - 12
        period == IF hour_24 < 12 THEN "am" ELSE "pm"
    IN  [prefix |-> prefix, month |-> month_full[MonthOf(target_time)],
         day |-> DayOf(target_time), hour_12 |-> hour_12, period |-> period]

\* t.astimezone(pytz.UTC).strftime("%Y-%m-%dT%H:%M:%SZ")
UtcIso(t) ==
    LET u == [t EXCEPT !.hour = @ + UtcOffsetHours]
    IN  [month |-> MonthOf(u), day |-> DayOf(u), hour |-> HourOf(u),
         minute |-> u.minute, second |-> u.second]

\* t.astimezone(pytz.UTC).strftime("%Y-%m-%dT%H:00:00Z"): minute and second
\* forced to 00
UtcIsoHour(t) == [UtcIso(t) EXCEPT !.minute = 0, !.second = 0]

RECURSIVE FindByCloseTime_HourOnly(_, _)
FindByCloseTime_HourOnly(markets, close_time_iso) ==
    IF markets = <<>> THEN [found |-> FALSE]
    ELSE IF /\ Head(markets).close_time.month = close_time_iso.month
            /\ Head(markets).close_time.day = close_time_iso.day
            /\ Head(markets).close_time.hour = close_time_iso.hour
         THEN [found |-> TRUE, ticker |-> Head(markets).ticker]
         ELSE FindByCloseTime_HourOnly(Tail(markets), close_time_iso)

\* first listed market whose close_time equals the key, else None
RECURSIVE FindByCloseTime(_, _)
FindByCloseTime(markets, close_time_iso) ==
    IF markets = <<>> THEN [found |-> FALSE]
    ELSE IF Head(markets).close_time = close_time_iso
         THEN [found |-> TRUE, ticker |-> Head(markets).ticker]
         ELSE FindByCloseTime(Tail(markets), close_time_iso)

PolyOffset_SameAsKalshi(offset) == offset

\* venue B is named by open time: offset - 1, floored at 0
PolyOffset(offset) == IF offset > 0 THEN offset - 1 ELSE 0

KalshiSeries == "KXBTCD"
PolySlugPrefix == "bitcoin-up-or-down"

get_market_pair(clock, listing, offset) ==
    LET kalshi_target == get_target_hours(clock, offset)
        kalshi_target_time == kalshi_target.start
        close_time == kalshi_target.end
        poly_target == get_target_hours(clock, PolyOffset(offset))
        poly_target_time == poly_target.start
        event_ticker == generate_event_ticker(KalshiSeries, kalshi_target_time)
        close_time_iso == UtcIsoHour(close_time)
        match == FindByCloseTime(listing, close_time_iso)
        real_ticker ==
            IF match.found THEN [discovered |-> TRUE, name |-> match.ticker]
            ELSE [discovered |-> FALSE,
                  name |-> generate_kalshi_ticker(KalshiSeries, kalshi_target_time)]
    IN  [computed |-> TRUE,
         event_ticker |-> event_ticker,
         close_time_iso |-> close_time_iso,
         kalshi |-> [ticker |-> real_ticker,
                     series |-> KalshiSeries,
                     close_time_utc |-> UtcIso(close_time)],
         polymarket |-> [slug |-> generate_polymarket_slug(PolySlugPrefix,
                                                           poly_target_time)]]

\* the venue-A listing: hourly markets closing k hours after the current
\* hour's start, each named by the venue after its local close hour
ListedMarket(clock, k) ==
    LET close == OnTheHour(clock.hour + k)
    IN  [ticker |-> generate_kalshi_ticker(KalshiSeries, close),
         close_time |-> UtcIso(close)]

RECURSIVE SetToSeq(_)
SetToSeq(S) ==
    IF S = {} THEN <<>>
    ELSE LET k == CHOOSE x \in S : \A y \in S : x <= y
         IN  <<k>> \o SetToSeq(S \ {k})

HourlyListings(clock) ==
    {[i \in 1..Len(SetToSeq(ks)) |-> ListedMarket(clock, SetToSeq(ks)[i])] :
        ks \in SUBSET (1..MaxListed)}

\* a market of another series of the venue that closes on the half hour
OtherSeries == "KXBTC"
HalfHourMinute == 30
HalfHourMarket(clock, k) ==
    LET close == [OnTheHour(clock.hour + k) EXCEPT !.minute = HalfHourMinute]
    IN  [ticker |-> generate_kalshi_ticker(OtherSeries, close),
         close_time |-> UtcIso(close)]

\* the listing is empty (also: the request failed), or holds hourly markets,
\* possibly after a half-hour market
Listings(clock) ==
    HourlyListings(clock) \cup
    {<<HalfHourMarket(clock, k)>> \o hourly :
        k \in 1..MaxListed, hourly \in HourlyListings(clock)}

NotCalled == [computed |-> FALSE]

(***************************************************************************)
(* PriceFetcher: the source chain and the hourly cache                     *)
(*                                                                         *)
(* The resolver's clock is [day, hour]: hour is the hour of the day that   *)
(* datetime.now() reports, day counts the days since the process started.  *)
(***************************************************************************)
MaxPriceDay == 1
MaxPriceHour == 1

Assets == {"BTC", "ETH"}

\* the order in which get_price_to_beat asks its sources
SourceOrder == <<"polymarket_data_api", "binance_intl", "cryptocompare_binance">>
SourceNames == {SourceOrder[i] : i \in DOMAIN SourceOrder}

\* what a source answers: a failed request, or a payload with a price in it
SourcePayloads == {-1, 95000}
SourceReplies ==
    {[ok |-> FALSE, value |-> 0]} \cup
    {[ok |-> TRUE, value |-> v] : v \in SourcePayloads}
ReplySets == [SourceNames -> SourceReplies]

\* _fetch_*: the payload's price, 0.0 for a non-200 answer or an exception
FetchPrice(reply) == IF reply.ok THEN reply.value ELSE 0

PriceClockStart == [day |-> 0, hour |-> 0]

\* PriceFetcher.__init__
NoLastHour == -1
EmptyCache == [a \in Assets |-> [present |-> FALSE]]

PriceResult(price, source, asset, timestamp) ==
    [price |-> price, source |-> source, asset |-> asset,
     timestamp |-> timestamp]

ResolveFromSources_NonNegative(replies) ==
    LET p1 == FetchPrice(replies[SourceOrder[1]])
        p2 == FetchPrice(replies[SourceOrder[2]])
        p3 == FetchPrice(replies[SourceOrder[3]])
    IN  IF p1 >= 0 THEN
            [price |-> p1, source |-> SourceOrder[1],
             called |-> SubSeq(SourceOrder, 1, 1)]
        ELSE IF p2 >= 0 THEN
            [price |-> p2, source |-> SourceOrder[2],
             called |-> SubSeq(SourceOrder, 1, 2)]
        ELSE IF p3 >= 0 THEN
            [price |-> p3, source |-> SourceOrder[3], called |-> SourceOrder]
        ELSE
            [price |-> p3, source |-> "unknown", called |-> SourceOrder]

\* the fallback chain of get_price_to_beat: the price and source it ends
\* with, and the sources it asked
ResolveFromSources(replies) ==
    LET p1 == FetchPrice(replies[SourceOrder[1]])
        p2 == FetchPrice(replies[SourceOrder[2]])
        p3 == FetchPrice(replies[SourceOrder[3]])
    IN  IF p1 > 0 THEN
            [price |-> p1, source |-> SourceOrder[1],
             called |-> SubSeq(SourceOrder, 1, 1)]
        ELSE IF p2 > 0 THEN
            [price |-> p2, source |-> SourceOrder[2],
             called |-> SubSeq(SourceOrder, 1, 2)]
        ELSE IF p3 > 0 THEN
            [price |-> p3, source |-> SourceOrder[3], called |-> SourceOrder]
        ELSE
            [price |-> p3, source |-> "unknown", called |-> SourceOrder]

HourChanged_Always(current_hour, previous_hour) == TRUE

\* if current_hour != self._last_hour
HourChanged(current_hour, previous_hour) == current_hour # previous_hour

\* the cache after the rollover test of get_price_to_beat
CacheAfterRollover(clock, previous_hour, old_cache) ==
    IF HourChanged(clock.hour, previous_hour) THEN EmptyCache ELSE old_cache

NoPriceCall == [made |-> FALSE]
NeverCalled == [called |-> FALSE]

PriceIdle ==
    /\ price_clock = PriceClockStart
    /\ last_hour = NoLastHour
    /\ cache = EmptyCache
    /\ last_called = [a \in Assets |-> NeverCalled]
    /\ price_call = NoPriceCall

(***************************************************************************)
(* The evaluation cycle of background_aggregator for one asset             *)
(***************************************************************************)
\* a market the venue-A stream reports without a floor_strike
NoStrikeMarket ==
    [strike |-> 0, yes_ask |-> 40, no_ask |-> 50, yes_count |-> 5,
     no_count |-> 2]
RawKalshiMarkets == KalshiMarkets \cup {NoStrikeMarket}
RawMarketLists == UNION {[1..n -> RawKalshiMarkets] : n \in 0..MaxMarkets}

\* the quotes the venue-B stream holds in the cycle
CycleQuotes == {q \in PolyQuotes : q.size > 0}

\* the results get_price_to_beat can hand to the cycle
CyclePriceResults ==
    {LET r == ResolveFromSources(replies)
     IN  PriceResult(r.price, r.source, "BTC", PriceClockStart) :
        replies \in ReplySets}

\* if strike > 0: kalshi_markets.append(...)
HasStrike(m) == m.strike > 0

NoLatest == [poly |-> [Up |-> [ask |-> 0, bid |-> 0, size |-> 0],
                       Down |-> [ask |-> 0, bid |-> 0, size |-> 0]],
             kalshi |-> <<>>]
NoPriceResult == PriceResult(0, "unknown", "BTC", PriceClockStart)

(***************************************************************************)
(* The evaluation phase of background_aggregator over the cached assets    *)
(*                                                                         *)
(* A field of a venue-A market is the JSON value the poll stored: an       *)
(* integer, null, a non-numeric string, or no such key.  Times are in      *)
(* milliseconds since the phase began.                                     *)
(***************************************************************************)
MaxRawMarkets == 2

\* list(MONITORED_ASSETS), the assets that have a configuration
MonitoredOrder == <<"BTC", "ETH">>

JsonInt(n) == [kind |-> "int", value |-> n]
JsonNull == [kind |-> "null", value |-> 0]
JsonText == [kind |-> "text", value |-> 0]
JsonAbsent == [kind |-> "absent", value |-> 0]

Converted(n) == [raised |-> FALSE, value |-> n]
ConversionRaised == [raised |-> TRUE, value |-> 0]

\* int(m.get(key, 0)): TypeError for null, ValueError for "n/a"
ToInt(field) ==
    IF field.kind = "int" THEN Converted(field.value)
    ELSE IF field.kind = "absent" THEN Converted(0)
    ELSE ConversionRaised

\* float(m.get("floor_strike", 0) or 0): null reads as 0
ToStrike(field) ==
    IF field.kind = "int" THEN Converted(field.value)
    ELSE IF field.kind \in {"absent", "null"} THEN Converted(0)
    ELSE ConversionRaised

RawMarket(strike, yes_ask, yes_qty) ==
    [floor_strike |-> strike, yes_ask |-> yes_ask, no_ask |-> JsonInt(50),
     yes_ask_quantity |-> yes_qty, no_ask_quantity |-> JsonInt(2)]

\* the markets a poll can have stored for an asset
PayloadMarkets ==
    {RawMarket(JsonInt(95000), JsonInt(40), JsonInt(5)),
     RawMarket(JsonInt(96000), JsonAbsent, JsonInt(5)),
     RawMarket(JsonNull, JsonInt(40), JsonInt(5)),
     RawMarket(JsonNull, JsonNull, JsonInt(5)),
     RawMarket(JsonInt(94000), JsonNull, JsonInt(5)),
     RawMarket(JsonInt(94000), JsonInt(40), JsonText)}
PayloadLists == UNION {[1..n -> PayloadMarkets] : n \in 0..MaxRawMarkets}

\* the request timeout of a source of the resolver
SourceTimeoutMs == 5000
\* how long get_price_to_beat takes: a cache hit, or one timed-out source
ResolutionTimes == {0, SourceTimeoutMs}
ResolvedPrices == {0, 95000}

EvaluationInputs ==
    [kalshi_markets_raw : PayloadLists,
     price : ResolvedPrices,
     took : ResolutionTimes]

\* the body of "for m in kalshi_markets_raw" for one market
ConvertMarket(m) ==
    LET strike == ToStrike(m.floor_strike)
        yes_ask == ToInt(m.yes_ask)
        no_ask == ToInt(m.no_ask)
        yes_qty == ToInt(m.yes_ask_quantity)
        no_qty == ToInt(m.no_ask_quantity)
    IN  [raised |-> \/ strike.raised \/ yes_ask.raised \/ no_ask.raised
                    \/ yes_qty.raised \/ no_qty.raised,
         market |-> [strike |-> strike.value, yes_ask |-> yes_ask.value,
                     no_ask |-> no_ask.value, yes_count |-> yes_qty.value,
                     no_count |-> no_qty.value]]

\* for m in kalshi_markets_raw: ... if strike > 0: kalshi_markets.append
RECURSIVE ConvertMarkets(_, _)
ConvertMarkets(raw, kalshi_markets) ==
    IF raw = <<>> THEN [raised |-> FALSE, markets |-> kalshi_markets]
    ELSE LET c == ConvertMarket(Head(raw))
         IN  IF c.raised THEN [raised |-> TRUE, markets |-> kalshi_markets]
             ELSE ConvertMarkets(Tail(raw),
                                 IF HasStrike(c.market)
                                 THEN Append(kalshi_markets, c.market)
                                 ELSE kalshi_markets)

\* what get_latest_prices hands to the phase for either asset
PhaseQuotes == [Up |-> [ask |-> 45, bid |-> 20, size |-> 3],
                Down |-> [ask |-> 60, bid |-> 20, size |-> 3]]
\* the gap bounds calculate_arbitrage_logic reads
PhaseConfig == [has_config |-> TRUE, min_gap |-> 0, max_gap |-> 2000]

NoEvaluation ==
    [started |-> FALSE, inputs |-> <<>>, pending |-> <<>>, clock |-> 0,
     raised |-> FALSE, log |-> <<>>]

\* the phase begins: for asset_code, info in market_info_cache.items()
EvaluationBegun(inputs) ==
    [started |-> TRUE, inputs |-> inputs, pending |-> MonitoredOrder,
     clock |-> 0, raised |-> FALSE, log |-> <<>>]

\* one pass of the loop body for the asset at the head of pending:
\* get_price_to_beat returns after it has taken its time, then the markets
\* are converted; an exception leaves the loop for "except Exception"
EvaluateOne(ev) ==
    LET asset == Head(ev.pending)
        input == ev.inputs[asset]
        at == ev.clock + input.took
        converted == ConvertMarkets(input.kalshi_markets_raw, <<>>)
        outcome == IF converted.raised THEN "raised"
                   ELSE IF converted.markets = <<>> THEN "skipped"
                   ELSE "published"
    IN  [ev EXCEPT
            !.pending = IF converted.raised THEN <<>> ELSE Tail(@),
            !.clock = at,
            !.raised = converted.raised,
            !.log = Append(@, [asset |-> asset, outcome |-> outcome,
                               at |-> at])]

\* full_response of the asset at the head of pending
FullResponse(ev) ==
    LET asset == Head(ev.pending)
        input == ev.inputs[asset]
        converted == ConvertMarkets(input.kalshi_markets_raw, <<>>)
        pd == BuildPolyData(input.price, PhaseQuotes.Up, PhaseQuotes.Down)
        kd == BuildKalshiData(converted.markets)
    IN  [asset |-> asset,
         response |-> CalculateArbitrageLogic(pd, kd, PhaseConfig),
         markets |-> kd.markets]

CycleIdle ==
    /\ latest = NoLatest
    /\ price_result = NoPriceResult
    /\ published = <<>>
    /\ evaluation_phase = NoEvaluation

(***************************************************************************)
(* KalshiClient._request_with_retry                                        *)
(*                                                                         *)
(* Delays are in milliseconds.  A reply is what session.request does: it   *)
(* raises (connection error, timeout) or returns a response with a status. *)
(***************************************************************************)
max_retries == 5
BaseDelayMs == 1000
JitterBoundMs == 500
JitterSamplesMs == {0, 499}
UserAgents == 1..4

RateLimited == 429
StatusCodes == {200, 500, RateLimited}
RequestReplies ==
    {[raised |-> TRUE, status |-> 0]} \cup
    {[raised |-> FALSE, status |-> st] : st \in StatusCodes}

RECURSIVE Pow2(_)
Pow2(n) == IF n = 0 THEN 1 ELSE 2 * Pow2(n - 1)

BackoffDelay_Linear(i, jitter) == BaseDelayMs * (i + 1) + jitter

\* (base_delay * (2 ** i)) + (random.random() * 0.5)
BackoffDelay(i, jitter) == BaseDelayMs * Pow2(i) + jitter

NoHttpResponse == [present |-> FALSE, status |-> 0]

\* no call in progress; the headers were chosen by __init__
RequestNotStarted(agent) ==
    [pc |-> "idle", i |-> 0, replies |-> <<>>, sleeps |-> <<>>,
     rotations |-> 0, user_agent |-> agent, result |-> NoHttpResponse]

\* one iteration of "for i in range(max_retries)": the headers are rotated
\* from the second iteration on, the request is sent and answered by
\* 'reply', and the loop sleeps, returns or raises
RetryIteration(req, reply, jitter, agent) ==
    LET i == req.i
        rotated == IF i > 0
                   THEN [req EXCEPT !.user_agent = agent, !.rotations = @ + 1]
                   ELSE req
        sent == [rotated EXCEPT !.replies = Append(@, reply)]
    IN  IF reply.raised THEN
            IF i = max_retries - 1
            THEN [sent EXCEPT !.pc = "raised"]
            ELSE [sent EXCEPT !.sleeps = Append(@, BackoffDelay(i, 0)),
                              !.i = i + 1]
        ELSE IF reply.status = RateLimited THEN
            LET slept == [sent EXCEPT
                             !.sleeps = Append(@, BackoffDelay(i, jitter)),
                             !.i = i + 1]
            IN  IF i + 1 < max_retries THEN slept
                ELSE [slept EXCEPT !.pc = "returned"]
        ELSE [sent EXCEPT !.pc = "returned",
                          !.result = [present |-> TRUE,
                                      status |-> reply.status]]

RetryIdle == request = RequestNotStarted(1)

(***************************************************************************)
(* KalshiStream: the polling loop                                          *)
(*                                                                         *)
(* The body of one polling cycle has no await in it, so nothing else runs  *)
(* between the polls of a cycle; other coroutines run while the loop       *)
(* sleeps.                                                                 *)
(***************************************************************************)
\* the hours whose markets an asset is switched through
StreamHours == {1, 2}

\* the venue-A ticker of an asset's market of hour h
TickerFor(asset, h) == [present |-> TRUE, asset |-> asset, hour |-> h]
NoTicker == [present |-> FALSE, asset |-> "", hour |-> 0]

\* a market of the event 'ticker' as the venue reports it
MarketOf(ticker, yes_ask) == [event_ticker |-> ticker, yes_ask |-> yes_ask]

\* the "markets" lists the venue can answer for a ticker
PolledLists(ticker) ==
    {<<>>, <<MarketOf(ticker, 40)>>,
     <<MarketOf(ticker, 55), MarketOf(ticker, 40)>>}

\* what requests.get(url, timeout=5) and response.json() do for a ticker:
\* raise, answer a non-200 status, or answer 200 with or without "markets"
PollReplies(ticker) ==
    {[raised |-> TRUE, status |-> 0, has_markets |-> FALSE, markets |-> <<>>],
     [raised |-> FALSE, status |-> RateLimited, has_markets |-> FALSE,
      markets |-> <<>>],
     [raised |-> FALSE, status |-> 200, has_markets |-> FALSE,
      markets |-> <<>>]} \cup
    {[raised |-> FALSE, status |-> 200, has_markets |-> TRUE, markets |-> ms] :
        ms \in PolledLists(ticker)}

PollIntervalMs == 1000
PollErrorSleepMs == 5000

\* list(self.tickers.items()): the tracked assets in insertion order
RECURSIVE TickerItems(_, _)
TickerItems(order, tickers) ==
    IF order = <<>> THEN <<>>
    ELSE <<[asset |-> Head(order), ticker |-> tickers[Head(order)]]>>
         \o TickerItems(Tail(order), tickers)

KalshiStreamNew ==
    [tickers |-> [a \in Assets |-> NoTicker],
     order |-> <<>>,
     latest_data |-> [a \in Assets |-> <<>>],
     is_running |-> FALSE,
     pc |-> "not_started",
     queue |-> <<>>,
     polls |-> <<>>,
     slept |-> 0]

add_ticker_DropsOldMarkets(ks, asset_code, ticker) ==
    [ks EXCEPT !.tickers[asset_code] = ticker,
               !.latest_data[asset_code] = <<>>,
               !.order = IF ks.tickers[asset_code].present THEN @
                         ELSE Append(@, asset_code)]

\* self.tickers[asset_code] = ticker
add_ticker(ks, asset_code, ticker) ==
    [ks EXCEPT !.tickers[asset_code] = ticker,
               !.order = IF ks.tickers[asset_code].present THEN @
                         ELSE Append(@, asset_code)]

\* the top of "while self.is_running": a new cycle over the tracked tickers,
\* or the end of the loop
KalshiLoopHead(ks) ==
    IF ~ks.is_running THEN [ks EXCEPT !.pc = "stopped"]
    ELSE LET items == TickerItems(ks.order, ks.tickers)
         IN  IF items = <<>>
             THEN [ks EXCEPT !.pc = "sleeping", !.queue = <<>>,
                             !.polls = <<>>, !.slept = PollIntervalMs]
             ELSE [ks EXCEPT !.pc = "polling", !.queue = items,
                             !.polls = <<>>]

StoreMarkets_Merge(old, polled) == old \o polled

\* self.latest_data[asset_code] = data["markets"]
StoreMarkets(old, polled) == polled

\* one pass of the for loop: the poll of the next tracked ticker
KalshiPollOne(ks, reply) ==
    LET item == Head(ks.queue)
        rest == Tail(ks.queue)
        logged == [ks EXCEPT
                      !.polls = Append(@, [asset |-> item.asset,
                                           ticker |-> item.ticker,
                                           reply |-> reply,
                                           before |-> ks.latest_data[item.asset]])]
        stored == IF ~reply.raised /\ reply.status = 200 /\ reply.has_markets
                  THEN [logged EXCEPT
                           !.latest_data[item.asset] =
                               StoreMarkets(@, reply.markets)]
                  ELSE logged
    IN  IF reply.raised
        THEN [logged EXCEPT !.queue = <<>>, !.pc = "sleeping",
                            !.slept = PollErrorSleepMs]
        ELSE IF rest = <<>>
        THEN [stored EXCEPT !.queue = rest, !.pc = "sleeping",
                            !.slept = PollIntervalMs]
        ELSE [stored EXCEPT !.queue = rest]

\* get_latest_markets
get_latest_markets(ks, asset_code) == ks.latest_data[asset_code]

KalshiStreamIdle == kalshi_stream = KalshiStreamNew

(***************************************************************************)
(* PolymarketStream: add_market, the subscription loop, the quote table    *)
(*                                                                         *)
(* The loop is suspended at its awaits (connect, send, recv, sleep); what  *)
(* it does between two awaits is one step.  add_market is synchronous and  *)
(* runs while the loop is suspended.                                       *)
(***************************************************************************)
MaxMessages == 2

PolyAssets == {"BTC"}
Outcomes == <<"Up", "Down">>

SlugFor(asset, h) == [asset |-> asset, hour |-> h]
PolySlugs == {SlugFor(a, h) : a \in PolyAssets, h \in StreamHours}

\* the token of one outcome of a slug's market
TokenOf(slug, outcome) ==
    [asset |-> slug.asset, hour |-> slug.hour, outcome |-> outcome]
PolyTokens == {TokenOf(sl, Outcomes[i]) : sl \in PolySlugs, i \in DOMAIN Outcomes}

\* what the lookup GET /markets?slug=... does: raise, answer a non-200
\* status, or answer the slug's markets (clobTokenIds and outcomes); a token
\* can be listed twice, and then has no outcome at its second position
LookupReplies(slug) ==
    LET up == TokenOf(slug, "Up")
        down == TokenOf(slug, "Down")
    IN  {[raised |-> TRUE, status |-> 0, markets |-> <<>>],
         [raised |-> FALSE, status |-> 500, markets |-> <<>>],
         [raised |-> FALSE, status |-> 200,
          markets |-> <<[clobTokenIds |-> <<up, down>>,
                         outcomes |-> Outcomes]>>],
         [raised |-> FALSE, status |-> 200,
          markets |-> <<[clobTokenIds |-> <<up, down, up>>,
                         outcomes |-> Outcomes]>>]}

NoQuote == [present |-> FALSE, ask |-> 0, bid |-> 0, size |-> 0]
NoOutcome == [present |-> FALSE, outcome |-> "", asset |-> ""]

StreamAsks == {45, 60}
NoToken == [asset |-> "", hour |-> 0, outcome |-> ""]

\* the messages of the market channel: a price_change with its changes, or
\* another event with asset_id and price
PriceEvents(tokens) ==
    {[event_type |-> "price_change",
      price_changes |-> <<[asset_id |-> t, best_ask |-> a, best_bid |-> 20,
                           size |-> 3]>>,
      asset_id |-> NoToken, price |-> 0, size |-> 0] :
        t \in tokens, a \in StreamAsks} \cup
    {[event_type |-> "price_change",
      price_changes |-> <<[asset_id |-> p[1], best_ask |-> 45,
                           best_bid |-> 20, size |-> 3],
                          [asset_id |-> p[2], best_ask |-> 60,
                           best_bid |-> 20, size |-> 3]>>,
      asset_id |-> NoToken, price |-> 0, size |-> 0] :
        p \in {q \in tokens \X tokens : q[1] # q[2]}} \cup
    {[event_type |-> "last_trade_price", price_changes |-> <<>>,
      asset_id |-> t, price |-> 45, size |-> 0] : t \in tokens}

\* the tokens a message names
NamedTokens(event) ==
    IF event.event_type = "price_change"
    THEN {event.price_changes[i].asset_id : i \in DOMAIN event.price_changes}
    ELSE {event.asset_id}

SeqToSet(seq) == {seq[i] : i \in DOMAIN seq}

NoSlug == [asset |-> "", hour |-> 0]
NoLookup == [raised |-> FALSE, status |-> 0, markets |-> <<>>]

\* the last thing that happened to the stream: the operation, for add_market
\* its slug, the lookup's reply and whether the lookup was made, for a
\* received message the tokens it names
NoOp ==
    [op |-> "init", slug |-> NoSlug, reply |-> NoLookup, lookup |-> FALSE,
     named |-> {}]

LoopOp(ps, op, named) ==
    [ps EXCEPT !.last_op = [NoOp EXCEPT !.op = op, !.named = named]]

PolymarketStreamNew ==
    [prices |-> [t \in PolyTokens |-> NoQuote],
     price_order |-> <<>>,
     token_to_outcome |-> [t \in PolyTokens |-> NoOutcome],
     token_ids |-> <<>>,
     current_subscribed_tokens |-> {},
     monitored_slugs |-> {},
     is_running |-> FALSE,
     pc |-> "not_started",
     connected |-> FALSE,
     sent |-> <<>>,
     received |-> 0,
     last_op |-> NoOp]

\* for i, t_id in enumerate(t_ids): the tokens of one listed market
RECURSIVE AddTokens(_, _, _, _, _)
AddTokens(ps, t_ids, outcomes, i, asset_code) ==
    IF i > Len(t_ids) THEN ps
    ELSE LET t_id == t_ids[i]
             appended == IF t_id \in SeqToSet(ps.token_ids) THEN ps
                         ELSE [ps EXCEPT !.token_ids = Append(@, t_id)]
             mapped == IF i <= Len(outcomes)
                       THEN [appended EXCEPT
                                !.token_to_outcome[t_id] =
                                    [present |-> TRUE,
                                     outcome |-> outcomes[i],
                                     asset |-> asset_code]]
                       ELSE appended
         IN  AddTokens(mapped, t_ids, outcomes, i + 1, asset_code)

\* for m in markets
RECURSIVE AddMarkets(_, _, _)
AddMarkets(ps, markets, asset_code) ==
    IF markets = <<>> THEN ps
    ELSE AddMarkets(AddTokens(ps, Head(markets).clobTokenIds,
                              Head(markets).outcomes, 1, asset_code),
                    Tail(markets), asset_code)

AlreadyMonitored_Never(ps, slug) == FALSE

\* if slug in self.monitored_slugs: return
AlreadyMonitored(ps, slug) == slug \in ps.monitored_slugs

\* add_market(asset_code, slug), the lookup answering 'reply'
add_market(ps, asset_code, slug, reply) ==
    IF AlreadyMonitored(ps, slug)
    THEN [ps EXCEPT !.last_op = [NoOp EXCEPT !.op = "add_market",
                                             !.slug = slug]]
    ELSE LET looked == [ps EXCEPT
                           !.last_op = [NoOp EXCEPT !.op = "add_market",
                                                    !.slug = slug,
                                                    !.reply = reply,
                                                    !.lookup = TRUE]]
         IN  IF ~reply.raised /\ reply.status = 200
             THEN [AddMarkets(looked, reply.markets, asset_code) EXCEPT
                      !.monitored_slugs = @ \cup {slug}]
             ELSE looked

\* self.prices[t_id] = {...}: a new key goes to the end of the dict
SetPrice(ps, t_id, quote) ==
    [ps EXCEPT !.prices[t_id] = quote,
               !.price_order = IF ps.prices[t_id].present THEN @
                               ELSE Append(@, t_id)]

\* for change in changes: self.prices[t_id] = {ask, bid, size}
RECURSIVE ApplyChanges(_, _)
ApplyChanges(ps, changes) ==
    IF changes = <<>> THEN ps
    ELSE LET c == Head(changes)
         IN  ApplyChanges(SetPrice(ps, c.asset_id,
                              [present |-> TRUE, ask |-> c.best_ask,
                               bid |-> c.best_bid, size |-> c.size]),
                          Tail(changes))

\* the handling of one received message: a price_change sets the quote of
\* every token it names, another event with asset_id and price sets that
\* token's ask and bid to the price
HandleMessage(ps, event) ==
    IF event.event_type = "price_change"
    THEN ApplyChanges(ps, event.price_changes)
    ELSE IF event.asset_id # NoToken /\ event.price # 0
    THEN SetPrice(ps, event.asset_id,
                  [present |-> TRUE, ask |-> event.price, bid |-> event.price,
                   size |-> event.size])
    ELSE ps

CloseConnection_DropsQuotes(ps) ==
    [ps EXCEPT !.connected = FALSE,
               !.prices = [t \in PolyTokens |-> NoQuote],
               !.price_order = <<>>]

\* leaving "async with websockets.connect(...)": the connection is closed
CloseConnection(ps) == [ps EXCEPT !.connected = FALSE]

\* the top of the outer "while self.is_running"
PolyLoopHead(ps) ==
    IF ~ps.is_running THEN [ps EXCEPT !.pc = "stopped"]
    ELSE IF ps.token_ids = <<>> THEN [ps EXCEPT !.pc = "waiting"]
    ELSE [ps EXCEPT !.current_subscribed_tokens = SeqToSet(ps.token_ids),
                    !.pc = "connecting"]

PolySubscribe_StaleMessage(ps) ==
    [ps EXCEPT !.connected = TRUE,
               !.sent = <<SelectSeq(ps.token_ids,
                              LAMBDA t : t \in ps.current_subscribed_tokens)>>,
               !.current_subscribed_tokens = SeqToSet(ps.token_ids),
               !.pc = "sending"]

\* websockets.connect returned: the subscribe message is built from
\* list(self.token_ids) and sent
PolySubscribe(ps) ==
    [ps EXCEPT !.connected = TRUE, !.sent = <<ps.token_ids>>,
               !.pc = "sending"]

TokensChanged_Never(ps) == FALSE

\* if set(self.token_ids) != self.current_subscribed_tokens
TokensChanged(ps) ==
    SeqToSet(ps.token_ids) # ps.current_subscribed_tokens

\* the top of the inner "while self.is_running", up to the next recv
PolyInnerHead(ps) ==
    IF ~ps.is_running \/ TokensChanged(ps)
    THEN PolyLoopHead(CloseConnection(ps))
    ELSE [ps EXCEPT !.pc = "receiving"]

\* except Exception: the connection is lost, the loop sleeps 5 seconds
PolyOnError(ps) ==
    IF ps.is_running THEN [CloseConnection(ps) EXCEPT !.pc = "backoff"]
    ELSE PolyLoopHead(CloseConnection(ps))

\* stop(): self.is_running = False
PolyStopped(ps) == [ps EXCEPT !.is_running = FALSE]

\* get_latest_prices: the quotes of the asset's tokens by outcome, a later
\* entry of the dict replacing an earlier one of the same outcome
RECURSIVE LatestPricesFrom(_, _, _, _)
LatestPricesFrom(ps, order, asset_code, results) ==
    IF order = <<>> THEN results
    ELSE LET t_id == Head(order)
             info == ps.token_to_outcome[t_id]
             updated ==
                 IF info.present /\ info.asset = asset_code
                 THEN [results EXCEPT
                          ![info.outcome] = [token |-> t_id,
                                             quote |-> ps.prices[t_id],
                                             present |-> TRUE]]
                 ELSE results
         IN  LatestPricesFrom(ps, Tail(order), asset_code, updated)

NoLatestPrice == [token |-> NoToken, quote |-> NoQuote, present |-> FALSE]

get_latest_prices(ps, asset_code) ==
    LatestPricesFrom(ps, ps.price_order, asset_code,
                     [o \in SeqToSet(Outcomes) |-> NoLatestPrice])

PolyStreamIdle == polymarket_stream = PolymarketStreamNew

(***************************************************************************)
(* background_aggregator: the discovery timer, the evaluation phase and    *)
(* the stream tasks it creates, on the asyncio event loop                  *)
(*                                                                         *)
(* The event loop runs one task at a time, from the head of its FIFO ready *)
(* queue, until the task's next await.  A task created with create_task    *)
(* and a task whose sleep has elapsed are appended to the queue.  Task 0   *)
(* is background_aggregator; the stream tasks are numbered from 1 in the   *)
(* order of their creation.  Times are in seconds.                         *)
(***************************************************************************)
MaxIterations == 4

DiscoveryPeriod == 300
\* the time that passes while the aggregator sleeps (at least one second)
SleepSeconds == {1, 299, 300}
\* time.time() at the first iteration; last_discovery_time starts at 0
StartTime == 1000

DiscoveryOutcomes == {"ok", "raised"}
EvaluationOutcomes == {"published", "skipped", "raised"}

\* self.is_running = True
SetRunning(flag) == TRUE

NoIteration ==
    [ran |-> FALSE, now |-> 0, last_discovery_time |-> 0,
     cached_before |-> <<>>, discovered |-> FALSE, cached |-> <<>>,
     evaluated |-> <<>>]

AggregatorNew ==
    [now |-> StartTime,
     last_discovery_time |-> 0,
     market_info_cache |-> <<>>,
     iterations |-> 0,
     discoveries |-> 0,
     log |-> NoIteration,
     ready |-> <<0>>,
     asleep |-> {},
     poly_is_running |-> FALSE,
     kalshi_is_running |-> FALSE,
     tasks |-> <<>>,
     shutdown |-> FALSE]

\* if now - last_discovery_time > 300 or not market_info_cache
DiscoveryDue(ag) ==
    ag.now - ag.last_discovery_time > DiscoveryPeriod
        \/ ag.market_info_cache = <<>>

current_offset_After55(clock) == IF clock.minute > 55 THEN 1 ELSE 0

\* current_offset = 1 if datetime.datetime.now().minute >= 55 else 0
current_offset(clock) == IF clock.minute >= 55 THEN 1 ELSE 0

\* for asset_code in list(MONITORED_ASSETS): market_info_cache[asset_code]
\* = info, unless get_market_pair or a stream registration raised
RECURSIVE DiscoverAssets(_, _, _)
DiscoverAssets(cached, assets, outcome) ==
    IF assets = <<>> THEN cached
    ELSE LET a == Head(assets)
             added == IF outcome[a] = "ok" /\ a \notin SeqToSet(cached)
                      THEN Append(cached, a) ELSE cached
         IN  DiscoverAssets(added, Tail(assets), outcome)

CreateIfNotRunning_Always(tasks, is_running, stream) ==
    Append(tasks, [stream |-> stream, state |-> "created",
                   connected |-> FALSE, stopped_early |-> FALSE])

\* if not stream.is_running: asyncio.create_task(stream.start())
CreateIfNotRunning(tasks, is_running, stream) ==
    IF is_running THEN tasks
    ELSE Append(tasks, [stream |-> stream, state |-> "created",
                        connected |-> FALSE, stopped_early |-> FALSE])

\* for asset_code, info in market_info_cache.items(): the assets whose
\* evaluation starts in this iteration; an exception ends the phase
RECURSIVE EvaluateAssets(_, _)
EvaluateAssets(assets, outcome) ==
    IF assets = <<>> THEN <<>>
    ELSE IF outcome[Head(assets)] = "raised" THEN <<Head(assets)>>
    ELSE <<Head(assets)>> \o EvaluateAssets(Tail(assets), outcome)

\* one iteration of "while True", up to "await asyncio.sleep(1)"
AggregatorIteration(ag, discovery, evaluation) ==
    LET due == DiscoveryDue(ag)
        cached == IF due
                  THEN DiscoverAssets(ag.market_info_cache, MonitoredOrder,
                                      discovery)
                  ELSE ag.market_info_cache
        with_poly == IF due
                     THEN CreateIfNotRunning(ag.tasks, ag.poly_is_running,
                                             "polymarket")
                     ELSE ag.tasks
        with_both == IF due
                     THEN CreateIfNotRunning(with_poly, ag.kalshi_is_running,
                                             "kalshi")
                     ELSE with_poly
        created == {i \in DOMAIN with_both : i > Len(ag.tasks)}
    IN  [ag EXCEPT
            !.market_info_cache = cached,
            !.last_discovery_time = IF due THEN ag.now ELSE @,
            !.iterations = @ + 1,
            !.discoveries = IF due THEN @ + 1 ELSE @,
            !.tasks = with_both,
            !.ready = Tail(ag.ready) \o SetToSeq(created),
            !.asleep = @ \cup {0},
            !.log = [ran |-> TRUE, now |-> ag.now,
                     last_discovery_time |-> ag.last_discovery_time,
                     cached_before |-> ag.market_info_cache,
                     discovered |-> due,
                     cached |-> cached,
                     evaluated |-> EvaluateAssets(cached, evaluation)]]

\* a stream task runs from the head of the ready queue up to its next await:
\* on its first run start() sets is_running; then, at the top of its loop,
\* it goes on if is_running is set and exits otherwise
StreamTaskRuns(ag, id, connects) ==
    LET task == ag.tasks[id]
        poly == task.stream = "polymarket"
        flag == IF poly THEN ag.poly_is_running ELSE ag.kalshi_is_running
        running == IF task.state = "created" THEN SetRunning(flag) ELSE flag
        after == IF running
                 THEN [task EXCEPT !.state = "active",
                                   !.connected = poly /\ connects]
                 ELSE [task EXCEPT !.state = "exited", !.connected = FALSE]
    IN  [ag EXCEPT
            !.poly_is_running = IF poly THEN running ELSE @,
            !.kalshi_is_running = IF poly THEN @ ELSE running,
            !.tasks[id] = after,
            !.ready = Tail(ag.ready),
            !.asleep = IF running THEN @ \cup {id} ELSE @]

\* the shutdown hook: polymarket_stream.stop(); kalshi_stream.stop().  A
\* task that was created and has not yet run is marked stopped_early.
StopStreams(ag) ==
    [ag EXCEPT
        !.shutdown = TRUE,
        !.poly_is_running = FALSE,
        !.kalshi_is_running = FALSE,
        !.tasks = [i \in DOMAIN ag.tasks |->
                      IF ag.tasks[i].state = "created"
                      THEN [ag.tasks[i] EXCEPT !.stopped_early = TRUE]
                      ELSE ag.tasks[i]]]

AggregatorIdle == aggregator = AggregatorNew

TransportIdle ==
    RetryIdle /\ KalshiStreamIdle /\ PolyStreamIdle /\ AggregatorIdle

(***************************************************************************)
(* Specification of the engine: the inputs are drawn, the engine is run.   *)
(***************************************************************************)
WindowIdle ==
    /\ now = OnTheHour(ClockStart)
    /\ kalshi_listing = <<>>
    /\ market_pairs = [o \in Offsets |-> NotCalled]

HoursIdle ==
    /\ target_hours = [o \in Offsets |-> NotCalled]
    /\ next_tradeable = NotCalled

ArbInit ==
    /\ poly_data \in {NoPolyData} \cup
           {BuildPolyData(p, up, down) :
                p \in PricesToBeat, up \in PolyQuotes, down \in PolyQuotes}
    /\ kalshi_data \in {NoKalshiData} \cup
           {BuildKalshiData(ms) : ms \in MarketLists}
    /\ config \in Configs
    /\ response = NoResponse
    /\ WindowIdle /\ HoursIdle /\ PriceIdle /\ CycleIdle /\ TransportIdle

Calculate ==
    /\ ~response.computed
    /\ response' = CalculateArbitrageLogic(poly_data, kalshi_data, config)
    /\ UNCHANGED <<poly_data, kalshi_data, config>>
    /\ UNCHANGED <<windowVars, hoursVars, priceVars, cycleVars, transportVars>>

ArbNext == Calculate

SpecArb == ArbInit /\ [][ArbNext]_vars

(***************************************************************************)
(* Specification of the window resolver: a clock reading and a listing are *)
(* drawn; get_market_pair is called for the offsets in any order.          *)
(***************************************************************************)
EngineIdle ==
    /\ poly_data = NoPolyData
    /\ kalshi_data = NoKalshiData
    /\ config = NoConfig
    /\ response = NoResponse

WindowInit ==
    /\ now \in Clocks
    /\ kalshi_listing \in Listings(now)
    /\ market_pairs = [o \in Offsets |-> NotCalled]
    /\ EngineIdle /\ HoursIdle /\ PriceIdle /\ CycleIdle /\ TransportIdle

GetMarketPair(offset) ==
    /\ ~market_pairs[offset].computed
    /\ market_pairs' = [market_pairs EXCEPT
                            ![offset] = get_market_pair(now, kalshi_listing, offset)]
    /\ UNCHANGED <<now, kalshi_listing>>
    /\ UNCHANGED <<engineVars, hoursVars, priceVars, cycleVars, transportVars>>

WindowNext == \E offset \in Offsets : GetMarketPair(offset)

SpecWindow == WindowInit /\ [][WindowNext]_vars

(***************************************************************************)
(* Specification of the hour windows: a clock reading is drawn;            *)
(* get_target_hours is called for the offsets in any order, and            *)
(* get_next_tradeable_market once.                                         *)
(***************************************************************************)
HoursInit ==
    /\ now \in Clocks
    /\ kalshi_listing = <<>>
    /\ market_pairs = [o \in Offsets |-> NotCalled]
    /\ HoursIdle
    /\ EngineIdle /\ PriceIdle /\ CycleIdle /\ TransportIdle

GetTargetHours(offset) ==
    /\ ~target_hours[offset].computed
    /\ target_hours' = [target_hours EXCEPT
                            ![offset] = [computed |-> TRUE,
                                         window |-> get_target_hours(now, offset)]]
    /\ UNCHANGED next_tradeable
    /\ UNCHANGED <<engineVars, windowVars, priceVars, cycleVars, transportVars>>

GetNextTradeableMarket ==
    /\ ~next_tradeable.computed
    /\ next_tradeable' = [computed |-> TRUE,
                          window |-> get_next_tradeable_market(now)]
    /\ UNCHANGED target_hours
    /\ UNCHANGED <<engineVars, windowVars, priceVars, cycleVars, transportVars>>

HoursNext ==
    \/ \E offset \in Offsets : GetTargetHours(offset)
    \/ GetNextTradeableMarket

SpecHours == HoursInit /\ [][HoursNext]_vars

(***************************************************************************)
(* Specification of the resolver: the clock advances, to the next hour or  *)
(* to the same hour of the next day, and get_price_to_beat is called for   *)
(* the assets in any order; the sources answer anything they can.          *)
(***************************************************************************)
PriceInit ==
    /\ PriceIdle
    /\ now = OnTheHour(ClockStart)
    /\ kalshi_listing = <<>>
    /\ market_pairs = [o \in Offsets |-> NotCalled]
    /\ EngineIdle /\ HoursIdle /\ CycleIdle /\ TransportIdle

NextHour ==
    /\ price_clock.hour < MaxPriceHour
    /\ price_clock' = [price_clock EXCEPT !.hour = @ + 1]
    /\ UNCHANGED <<last_hour, cache, last_called, price_call>>
    /\ UNCHANGED <<engineVars, windowVars, hoursVars, cycleVars, transportVars>>

NextDay ==
    /\ price_clock.day < MaxPriceDay
    /\ price_clock' = [price_clock EXCEPT !.day = @ + 1]
    /\ UNCHANGED <<last_hour, cache, last_called, price_call>>
    /\ UNCHANGED <<engineVars, windowVars, hoursVars, cycleVars, transportVars>>

\* get_price_to_beat(asset) answered from the cache
GetCachedPrice(asset) ==
    LET kept == CacheAfterRollover(price_clock, last_hour, cache)
    IN  /\ kept[asset].present
        /\ last_hour' = price_clock.hour
        /\ cache' = kept
        /\ last_called' = [last_called EXCEPT
                               ![asset] = [called |-> TRUE, at |-> price_clock]]
        /\ price_call' = [made |-> TRUE, asset |-> asset, at |-> price_clock,
                          hit |-> TRUE, called |-> <<>>,
                          result |-> kept[asset].result]
        /\ UNCHANGED price_clock
        /\ UNCHANGED <<engineVars, windowVars, hoursVars, cycleVars, transportVars>>

\* get_price_to_beat(asset) resolved from the sources, which answer 'replies'
ResolvePrice(asset, replies) ==
    LET kept == CacheAfterRollover(price_clock, last_hour, cache)
        r == ResolveFromSources(replies)
        result == PriceResult(r.price, r.source, asset, price_clock)
    IN  /\ ~kept[asset].present
        /\ last_hour' = price_clock.hour
        /\ cache' = [kept EXCEPT
                        ![asset] = [present |-> TRUE, result |-> result]]
        /\ last_called' = [last_called EXCEPT
                               ![asset] = [called |-> TRUE, at |-> price_clock]]
        /\ price_call' = [made |-> TRUE, asset |-> asset, at |-> price_clock,
                          hit |-> FALSE, called |-> r.called,
                          result |-> result, replies |-> replies]
        /\ UNCHANGED price_clock
        /\ UNCHANGED <<engineVars, windowVars, hoursVars, cycleVars, transportVars>>

GetPriceToBeat(asset) ==
    \/ GetCachedPrice(asset)
    \/ \E replies \in ReplySets : ResolvePrice(asset, replies)

PriceNext ==
    \/ NextHour
    \/ NextDay
    \/ \E asset \in Assets : GetPriceToBeat(asset)

SpecPrice == PriceInit /\ [][PriceNext]_vars

(***************************************************************************)
(* Specification of the evaluation cycle: the streams' latest data, the    *)
(* resolver's result and the asset's configuration are drawn; the cycle    *)
(* body of background_aggregator runs once for the asset.                  *)
(***************************************************************************)
CycleInit ==
    /\ latest \in [poly : [Up : CycleQuotes, Down : CycleQuotes],
                   kalshi : RawMarketLists]
    /\ price_result \in CyclePriceResults
    /\ published = <<>>
    /\ evaluation_phase = NoEvaluation
    /\ poly_data = NoPolyData
    /\ kalshi_data = NoKalshiData
    /\ config \in Configs \ {NoConfig}
    /\ response = NoResponse
    /\ WindowIdle /\ HoursIdle /\ PriceIdle /\ TransportIdle

EvaluateAsset ==
    LET price_to_beat == price_result.price
        kalshi_markets == SelectSeq(latest.kalshi, HasStrike)
        pd == BuildPolyData(price_to_beat, latest.poly.Up, latest.poly.Down)
        kd == BuildKalshiData(kalshi_markets)
        full_response == CalculateArbitrageLogic(pd, kd, config)
    IN  /\ ~response.computed
        /\ poly_data' = pd
        /\ kalshi_data' = kd
        /\ response' = full_response
        /\ published' = IF kalshi_markets = <<>> THEN <<>>
                        ELSE <<full_response>>
        /\ UNCHANGED <<config, latest, price_result, evaluation_phase>>
        /\ UNCHANGED <<windowVars, hoursVars, priceVars, transportVars>>

CycleNext == EvaluateAsset

SpecCycle == CycleInit /\ [][CycleNext]_vars

(***************************************************************************)
(* Specification of the evaluation phase: every monitored asset has a      *)
(* cached window; what the venue-A stream holds and what the resolver      *)
(* answers, and how fast, are drawn per asset; the loop body runs asset by *)
(* asset until the loop ends or an exception leaves it.                    *)
(***************************************************************************)
EvaluationInit ==
    /\ evaluation_phase \in {EvaluationBegun(inputs) :
                           inputs \in [Assets -> EvaluationInputs]}
    /\ latest = NoLatest
    /\ price_result = NoPriceResult
    /\ published = <<>>
    /\ EngineIdle /\ WindowIdle /\ HoursIdle /\ PriceIdle /\ TransportIdle

EvaluateNextAsset ==
    /\ evaluation_phase.pending # <<>>
    /\ evaluation_phase' = EvaluateOne(evaluation_phase)
    /\ published' =
           IF evaluation_phase'.log[Len(evaluation_phase'.log)].outcome
                  = "published"
           THEN Append(published, FullResponse(evaluation_phase))
           ELSE published
    /\ UNCHANGED <<latest, price_result>>
    /\ UNCHANGED <<engineVars, windowVars, hoursVars, priceVars, transportVars>>

EvaluationNext == EvaluateNextAsset

SpecEvaluation == EvaluationInit /\ [][EvaluationNext]_vars

CoreIdle ==
    EngineIdle /\ WindowIdle /\ HoursIdle /\ PriceIdle /\ CycleIdle

(***************************************************************************)
(* Specification of the retry wrapper: one call of _request_with_retry,    *)
(* every attempt answered by any reply.                                    *)
(***************************************************************************)
RetryInit ==
    /\ request \in {RequestNotStarted(agent) : agent \in UserAgents}
    /\ CoreIdle /\ KalshiStreamIdle /\ PolyStreamIdle /\ AggregatorIdle

\* _request_with_retry is called
RequestBegin ==
    /\ request.pc = "idle"
    /\ request' = [request EXCEPT !.pc = "running"]
    /\ UNCHANGED <<kalshi_stream, polymarket_stream, aggregator>>
    /\ UNCHANGED coreVars

\* one iteration of the retry loop
RequestAttempt ==
    /\ request.pc = "running"
    /\ \E reply \in RequestReplies, jitter \in JitterSamplesMs,
          agent \in UserAgents :
          request' = RetryIteration(request, reply, jitter, agent)
    /\ UNCHANGED <<kalshi_stream, polymarket_stream, aggregator>>
    /\ UNCHANGED coreVars

RetryNext == RequestBegin \/ RequestAttempt

SpecRetry == RetryInit /\ [][RetryNext]_vars

(***************************************************************************)
(* Specification of the venue-A stream: tickers are registered and         *)
(* switched to another hour while the polling loop runs; every poll is     *)
(* answered by any reply.                                                  *)
(***************************************************************************)
KalshiStreamInit ==
    /\ kalshi_stream = KalshiStreamNew
    /\ CoreIdle /\ RetryIdle /\ PolyStreamIdle /\ AggregatorIdle

\* add_ticker, called by the discovery pass while the loop is not inside a
\* polling cycle
KalshiAddTicker ==
    /\ kalshi_stream.pc # "polling"
    /\ \E asset \in Assets, h \in StreamHours :
          kalshi_stream' = add_ticker(kalshi_stream, asset,
                                      TickerFor(asset, h))
    /\ UNCHANGED <<request, polymarket_stream, aggregator>>
    /\ UNCHANGED coreVars

\* the task of start() runs for the first time
KalshiStart ==
    /\ kalshi_stream.pc = "not_started"
    /\ kalshi_stream' =
           KalshiLoopHead([kalshi_stream EXCEPT !.is_running = TRUE])
    /\ UNCHANGED <<request, polymarket_stream, aggregator>>
    /\ UNCHANGED coreVars

\* the poll of the next ticker of the cycle
KalshiPoll ==
    /\ kalshi_stream.pc = "polling"
    /\ \E reply \in PollReplies(Head(kalshi_stream.queue).ticker) :
          kalshi_stream' = KalshiPollOne(kalshi_stream, reply)
    /\ UNCHANGED <<request, polymarket_stream, aggregator>>
    /\ UNCHANGED coreVars

\* the sleep at the end of a cycle is over
KalshiWake ==
    /\ kalshi_stream.pc = "sleeping"
    /\ kalshi_stream' = KalshiLoopHead(kalshi_stream)
    /\ UNCHANGED <<request, polymarket_stream, aggregator>>
    /\ UNCHANGED coreVars

KalshiStreamNext ==
    KalshiAddTicker \/ KalshiStart \/ KalshiPoll \/ KalshiWake

SpecKalshiStream == KalshiStreamInit /\ [][KalshiStreamNext]_vars

(***************************************************************************)
(* Specification of the venue-B stream: markets are added while the        *)
(* subscription loop runs; the connection delivers any message about the   *)
(* subscribed tokens, times out, or fails.                                 *)
(***************************************************************************)
PolyStreamInit ==
    /\ polymarket_stream = PolymarketStreamNew
    /\ CoreIdle /\ RetryIdle /\ KalshiStreamIdle /\ AggregatorIdle

\* add_market, called by the discovery pass while the loop is suspended
PolyAddMarket ==
    /\ \E slug \in PolySlugs :
          \E reply \in LookupReplies(slug) :
              polymarket_stream' =
                  add_market(polymarket_stream, slug.asset, slug, reply)
    /\ UNCHANGED <<request, kalshi_stream, aggregator>>
    /\ UNCHANGED coreVars

\* the task of start() runs for the first time
PolyStart ==
    /\ polymarket_stream.pc = "not_started"
    /\ polymarket_stream' =
           PolyLoopHead(LoopOp([polymarket_stream EXCEPT !.is_running = TRUE],
                               "start", {}))
    /\ UNCHANGED <<request, kalshi_stream, aggregator>>
    /\ UNCHANGED coreVars

\* asyncio.sleep(1) without tokens, or asyncio.sleep(5) after an error, is
\* over
PolyWake ==
    /\ polymarket_stream.pc \in {"waiting", "backoff"}
    /\ polymarket_stream' = PolyLoopHead(LoopOp(polymarket_stream, "wake", {}))
    /\ UNCHANGED <<request, kalshi_stream, aggregator>>
    /\ UNCHANGED coreVars

\* websockets.connect returned a connection
PolyConnected ==
    /\ polymarket_stream.pc = "connecting"
    /\ polymarket_stream' =
           PolySubscribe(LoopOp(polymarket_stream, "connect", {}))
    /\ UNCHANGED <<request, kalshi_stream, aggregator>>
    /\ UNCHANGED coreVars

\* ws.send returned
PolySendDone ==
    /\ polymarket_stream.pc = "sending"
    /\ polymarket_stream' = PolyInnerHead(LoopOp(polymarket_stream, "sent", {}))
    /\ UNCHANGED <<request, kalshi_stream, aggregator>>
    /\ UNCHANGED coreVars

\* ws.recv returned a message about subscribed tokens
PolyReceive ==
    /\ polymarket_stream.pc = "receiving"
    /\ polymarket_stream.received < MaxMessages
    /\ \E event \in PriceEvents(SeqToSet(polymarket_stream.sent[1])) :
          polymarket_stream' =
              PolyInnerHead(
                  [HandleMessage(LoopOp(polymarket_stream, "recv",
                                        NamedTokens(event)), event)
                      EXCEPT !.received = @ + 1])
    /\ UNCHANGED <<request, kalshi_stream, aggregator>>
    /\ UNCHANGED coreVars

\* asyncio.wait_for(ws.recv(), timeout=1.0) timed out
PolyTimeout ==
    /\ polymarket_stream.pc = "receiving"
    /\ polymarket_stream' =
           PolyInnerHead(LoopOp(polymarket_stream, "timeout", {}))
    /\ UNCHANGED <<request, kalshi_stream, aggregator>>
    /\ UNCHANGED coreVars

\* connect, send or recv raised
PolyFail ==
    /\ polymarket_stream.pc \in {"connecting", "sending", "receiving"}
    /\ polymarket_stream' = PolyOnError(LoopOp(polymarket_stream, "fail", {}))
    /\ UNCHANGED <<request, kalshi_stream, aggregator>>
    /\ UNCHANGED coreVars

PolyStreamNext ==
    \/ PolyAddMarket
    \/ PolyStart
    \/ PolyWake
    \/ PolyConnected
    \/ PolySendDone
    \/ PolyReceive
    \/ PolyTimeout
    \/ PolyFail

SpecPolyStream == PolyStreamInit /\ [][PolyStreamNext]_vars

(***************************************************************************)
(* Specification of the venue-B stream with its shutdown: as above, and    *)
(* stop() is called on the running stream while its loop is suspended.     *)
(***************************************************************************)
PolyStop ==
    /\ polymarket_stream.is_running
    /\ polymarket_stream' = PolyStopped(LoopOp(polymarket_stream, "stop", {}))
    /\ UNCHANGED <<request, kalshi_stream, aggregator>>
    /\ UNCHANGED coreVars

PolyShutdownNext == PolyStreamNext \/ PolyStop

SpecPolyShutdown == PolyStreamInit /\ [][PolyShutdownNext]_vars

(***************************************************************************)
(* Specification of the quote tables under their writers and readers: the  *)
(* discovery pass registers an asset's market of the hour with both        *)
(* streams, both stream loops run, and the evaluation phase reads the      *)
(* tables, in any order.                                                   *)
(***************************************************************************)
TablesInit ==
    /\ kalshi_stream = KalshiStreamNew
    /\ polymarket_stream = PolymarketStreamNew
    /\ CoreIdle /\ RetryIdle /\ AggregatorIdle

\* the discovery pass for one asset: add_market, then add_ticker
DiscoverAsset ==
    /\ kalshi_stream.pc # "polling"
    /\ \E asset \in PolyAssets :
          \E reply \in LookupReplies(SlugFor(asset, 1)) :
              /\ polymarket_stream' =
                     add_market(polymarket_stream, asset, SlugFor(asset, 1),
                                reply)
              /\ kalshi_stream' =
                     add_ticker(kalshi_stream, asset, TickerFor(asset, 1))
    /\ UNCHANGED <<request, aggregator>>
    /\ UNCHANGED coreVars

\* the evaluation phase takes an asset's latest data from both streams
ReadTables ==
    /\ kalshi_stream.pc # "polling"
    /\ \E asset \in PolyAssets :
          latest' = [poly |-> get_latest_prices(polymarket_stream, asset),
                     kalshi |-> get_latest_markets(kalshi_stream, asset)]
    /\ UNCHANGED <<price_result, published, evaluation_phase>>
    /\ UNCHANGED <<engineVars, windowVars, hoursVars, priceVars, transportVars>>

TablesNext ==
    \/ DiscoverAsset
    \/ ReadTables
    \/ KalshiStart
    \/ KalshiPoll
    \/ KalshiWake
    \/ PolyStart
    \/ PolyWake
    \/ PolyConnected
    \/ PolySendDone
    \/ PolyReceive
    \/ PolyTimeout
    \/ PolyFail

SpecTables == TablesInit /\ [][TablesNext]_vars

(***************************************************************************)
(* Specification of the aggregator on the event loop: the lifespan hook    *)
(* has created the aggregator's task; discovery succeeds or raises per     *)
(* asset, an evaluation publishes, skips or raises, and sleeps end in any  *)
(* order.                                                                  *)
(***************************************************************************)
AggregatorInit ==
    /\ aggregator = AggregatorNew
    /\ CoreIdle /\ RetryIdle /\ KalshiStreamIdle /\ PolyStreamIdle

\* the event loop runs background_aggregator for one iteration
RunAggregator ==
    /\ aggregator.ready # <<>>
    /\ Head(aggregator.ready) = 0
    /\ aggregator.iterations < MaxIterations
    /\ \E discovery \in [SeqToSet(MonitoredOrder) -> DiscoveryOutcomes],
          evaluation \in [SeqToSet(MonitoredOrder) -> EvaluationOutcomes] :
          aggregator' = AggregatorIteration(aggregator, discovery, evaluation)
    /\ UNCHANGED <<request, kalshi_stream, polymarket_stream>>
    /\ UNCHANGED coreVars

\* the event loop runs a stream task up to its next await
RunStreamTask ==
    /\ aggregator.ready # <<>>
    /\ Head(aggregator.ready) > 0
    /\ \E connects \in BOOLEAN :
          aggregator' = StreamTaskRuns(aggregator, Head(aggregator.ready),
                                       connects)
    /\ UNCHANGED <<request, kalshi_stream, polymarket_stream>>
    /\ UNCHANGED coreVars

\* what a suspended task waits for has happened: the task is ready again;
\* the clock has moved on while the aggregator slept
TimerFires ==
    /\ \E id \in aggregator.asleep, dt \in SleepSeconds :
          aggregator' =
              [aggregator EXCEPT
                  !.asleep = @ \ {id},
                  !.ready = Append(@, id),
                  !.now = IF id = 0 THEN @ + dt ELSE @]
    /\ UNCHANGED <<request, kalshi_stream, polymarket_stream>>
    /\ UNCHANGED coreVars

AggregatorNext == RunAggregator \/ RunStreamTask \/ TimerFires

SpecAggregator == AggregatorInit /\ [][AggregatorNext]_vars

(***************************************************************************)
(* Specification of the aggregator with the shutdown hook: as above, and   *)
(* the hook stops both streams, once, between two steps of the event loop. *)
(* The server is going down: the aggregator starts no iteration after the  *)
(* hook, the stream tasks that exist go on being scheduled.                *)
(***************************************************************************)
Shutdown ==
    /\ ~aggregator.shutdown
    /\ aggregator' = StopStreams(aggregator)
    /\ UNCHANGED <<request, kalshi_stream, polymarket_stream>>
    /\ UNCHANGED coreVars

\* an iteration of background_aggregator before the hook has run
RunAggregatorBeforeShutdown ==
    /\ ~aggregator.shutdown
    /\ RunAggregator

ShutdownNext ==
    RunAggregatorBeforeShutdown \/ RunStreamTask \/ TimerFires \/ Shutdown

SpecShutdown == AggregatorInit /\ [][ShutdownNext]_vars

(***************************************************************************)
(* Specification of the discovery pass at a clock reading: the clock and   *)
(* the venue-A listing are drawn; the aggregator's first iteration, whose  *)
(* cache is empty, makes the pass.  Every asset is resolved by the same    *)
(* call, get_market_pair(config, kalshi_client, hours_offset =             *)
(* current_offset); the configurations differ in the names of the series   *)
(* and of the slug only, and the pair is kept under the offset it was      *)
(* asked for.                                                              *)
(***************************************************************************)
RolloverInit ==
    /\ now \in Clocks
    /\ kalshi_listing \in Listings(now)
    /\ market_pairs = [o \in Offsets |-> NotCalled]
    /\ aggregator = AggregatorNew
    /\ EngineIdle /\ HoursIdle /\ PriceIdle /\ CycleIdle
    /\ RetryIdle /\ KalshiStreamIdle /\ PolyStreamIdle

\* the first iteration of background_aggregator, with its discovery pass
FirstIteration ==
    /\ aggregator.iterations = 0
    /\ \E discovery \in [SeqToSet(MonitoredOrder) -> DiscoveryOutcomes],
          evaluation \in [SeqToSet(MonitoredOrder) -> EvaluationOutcomes] :
          aggregator' = AggregatorIteration(aggregator, discovery, evaluation)
    /\ market_pairs' =
           IF DiscoveryDue(aggregator)
           THEN [market_pairs EXCEPT
                    ![current_offset(now)] =
                        get_market_pair(now, kalshi_listing,
                                        current_offset(now))]
           ELSE market_pairs
    /\ UNCHANGED <<now, kalshi_listing>>
    /\ UNCHANGED <<request, kalshi_stream, polymarket_stream>>
    /\ UNCHANGED <<engineVars, hoursVars, priceVars, cycleVars>>

RolloverNext == FirstIteration

SpecRollover == RolloverInit /\ [][RolloverNext]_vars

(***************************************************************************)
(* Properties of calculate_arbitrage_logic (checked under SpecArb)         *)
(***************************************************************************)
Ran == response.computed /\ poly_data.present /\ kalshi_data.present

Reference == poly_data.price_to_beat

\* the strikes the matching loop does not skip, in the order it visits them
ValidMarkets == SelectSeq(kalshi_data.markets, IsValidPrice)

Range(seq) == {seq[i] : i \in DOMAIN seq}

CountWhere(seq, P(_)) == Cardinality({i \in DOMAIN seq : P(seq[i])})

YesDown(c) == c.kalshi_leg = "Yes" /\ c.poly_leg = "Down"
NoUp(c) == c.kalshi_leg = "No" /\ c.poly_leg = "Up"

\* the gap window read off the configuration, max_gap unbounded without one
InWindow(c) ==
    /\ (IF config.has_config THEN config.min_gap ELSE 0) <= c.gap
    /\ (config.has_config => c.gap <= config.max_gap)

CostInUnit(c) == 0 < c.total_cost /\ c.total_cost < PayoutUnit

\* C1: every valid-price strike equal to the reference price yields exactly
\* two checks for that strike, one Yes+Down and one No+Up.
C1_TwoChecksForEqualStrike ==
    Ran =>
        LET atRef(x) == x.strike = Reference
            chkRef(c) == c.kalshi_strike = Reference
        IN  /\ CountWhere(response.checks, chkRef)
                   = 2 * CountWhere(ValidMarkets, atRef)
            /\ CountWhere(ValidMarkets, atRef) > 0 =>
                   /\ \E c \in Range(response.checks) : chkRef(c) /\ YesDown(c)
                   /\ \E c \in Range(response.checks) : chkRef(c) /\ NoUp(c)

\* C2: no check with a selected leg appears in 'checks' or 'opportunities'
\* with a selected venue-A or venue-B ask that is 0 or at least the payout unit.
C2_NoDeadLegInOutput ==
    Ran =>
        \A c \in Range(response.checks) \cup Range(response.opportunities) :
            (YesDown(c) \/ NoUp(c)) =>
                /\ 0 < c.kalshi_cost /\ c.kalshi_cost < PayoutUnit
                /\ 0 < c.poly_cost /\ c.poly_cost < PayoutUnit

\* C3: every check flagged is_arbitrage has 0 < total_cost < 1.0 (the payout
\* unit) and available_contracts > 0.
C3_ArbitrageImpliesProfitable ==
    \A c \in Range(response.checks) \cup Range(response.opportunities) :
        c.is_arbitrage => CostInUnit(c) /\ c.available_contracts > 0

C3_Witness ==
    \E c \in Range(response.opportunities) :
        c.is_arbitrage /\ c.total_cost = 85 /\ c.available_contracts = 3

\* C4: a strike strictly below the reference price is checked as venue-A Yes
\* ask + venue-B Down ask; a strike strictly above it as venue-A No ask +
\* venue-B Up ask.
C4_LegSelection ==
    Ran =>
        /\ Len(response.checks) = Len(ValidMarkets)
        /\ \A i \in DOMAIN response.checks :
            LET c == response.checks[i]
                km == ValidMarkets[i]
            IN  /\ c.kalshi_strike = km.strike
                /\ Reference > km.strike =>
                       /\ YesDown(c)
                       /\ c.kalshi_cost = km.yes_ask
                       /\ c.poly_cost = poly_data.prices.Down.ask
                /\ Reference < km.strike =>
                       /\ NoUp(c)
                       /\ c.kalshi_cost = km.no_ask
                       /\ c.poly_cost = poly_data.prices.Up.ask

\* reference 95,050: strikes 94,000 and 95,000 pair Down/Yes, 96,000 Up/No
C4_Witness ==
    /\ Ran
    /\ Reference = 95050
    /\ \E c \in Range(response.checks) : c.kalshi_strike = 95000 /\ YesDown(c)
    /\ \E c \in Range(response.checks) : c.kalshi_strike = 96000 /\ NoUp(c)

\* C5: every emitted check has one of the two leg pairings, its total_cost is
\* the sum of the two selected legs' asks and its available_contracts is the
\* minimum of the two selected legs' sizes.
C5_CostAndSizeOfSelectedLegs ==
    Ran =>
        /\ Len(response.checks) = Len(ValidMarkets)
        /\ \A i \in DOMAIN response.checks :
            LET c == response.checks[i]
                km == ValidMarkets[i]
            IN  \/ /\ YesDown(c)
                   /\ c.total_cost = km.yes_ask + poly_data.prices.Down.ask
                   /\ c.available_contracts
                          = Min(km.yes_count, poly_data.prices.Down.size)
                \/ /\ NoUp(c)
                   /\ c.total_cost = km.no_ask + poly_data.prices.Up.ask
                   /\ c.available_contracts
                          = Min(km.no_count, poly_data.prices.Up.size)

\* C6: 'opportunities' is exactly the sub-list of 'checks' whose gap
\* |reference - strike| lies in [min_gap, max_gap], whatever the check's
\* profitability, and 'checks' holds one entry per valid-price strike.
C6_GapWindow ==
    Ran =>
        /\ Len(response.checks) = Len(ValidMarkets)
        /\ \A i \in DOMAIN response.checks :
               response.checks[i].gap = Abs(Reference - ValidMarkets[i].strike)
        /\ response.opportunities = SelectSeq(response.checks, InWindow)

\* a profitable, liquid check outside the window is in 'checks' only, next to
\* an unprofitable one that is in 'opportunities'
C6_Witness ==
    /\ Ran
    /\ \E c \in Range(response.checks) :
           /\ ~InWindow(c)
           /\ CostInUnit(c) /\ c.available_contracts > 0
           /\ c \notin Range(response.opportunities)
    /\ \E c \in Range(response.opportunities) : ~CostInUnit(c)

\* C7: every check in the gap window with 0 < total_cost < 1.0 and
\* available_contracts > 0 is emitted with is_arbitrage true.
C7_ProfitableInWindowIsArbitrage ==
    Ran =>
        \A c \in Range(response.opportunities) :
            (CostInUnit(c) /\ c.available_contracts > 0) => c.is_arbitrage

\* C8: the staking routine is called, with odds (1 - total_cost) / total_cost,
\* exactly for the checks flagged is_arbitrage; every unflagged check in the
\* gap window carries the zero "THEORETICAL" stake, and no unflagged check
\* carries any other stake.
C8_StakeOnlyOnArbitrage ==
    \A c \in Range(response.checks) \cup Range(response.opportunities) :
        /\ c.is_arbitrage <=> c.kelly.kind = "computed"
        /\ c.kelly.kind = "computed" =>
               /\ c.total_cost > 0
               /\ c.kelly.odds_num = PayoutUnit - c.total_cost
               /\ c.kelly.odds_den = c.total_cost
        /\ ~c.is_arbitrage =>
               /\ c.kelly.kind \in {"empty", "THEORETICAL"}
               /\ c.kelly.kind = "THEORETICAL" => c.kelly.kelly_fraction = 0
               /\ InWindow(c) <=> c.kelly.kind = "THEORETICAL"

C8_Witness ==
    /\ \E c \in Range(response.opportunities) :
           c.is_arbitrage /\ c.kelly.kind = "computed" /\ c.kelly.odds_num = 15
    /\ \E c \in Range(response.opportunities) :
           ~c.is_arbitrage /\ c.kelly.kind = "THEORETICAL"

(***************************************************************************)
(* Properties of get_market_pair (checked under SpecWindow)                *)
(***************************************************************************)
\* the instant an identifier names, in local hours since January 1st 00:00
HourOfDate(month, day, hour) ==
    (IF month = 1 THEN day - 1 ELSE day + 30) * 24 + hour

\* the local hour a UTC close_time string names
IsoLocalHour(iso) == HourOfDate(iso.month, iso.day, iso.hour) - UtcOffsetHours

\* the local open hour a venue-B slug names
SlugOpenHour(slug) ==
    LET hour_24 == IF slug.period = "am"
                   THEN (IF slug.hour_12 = 12 THEN 0 ELSE slug.hour_12)
                   ELSE (IF slug.hour_12 = 12 THEN 12 ELSE slug.hour_12 + 12)
    IN  HourOfDate(IF slug.month = "january" THEN 1 ELSE 2, slug.day, hour_24)

\* C9: for every offset >= 0 the close time discovery matches against is the
\* venue-B open hour named by the slug plus one hour (one trading hour on
\* both venues).
C9_SameTradingHour ==
    \A o \in Offsets :
        (o >= 0 /\ market_pairs[o].computed) =>
            IsoLocalHour(market_pairs[o].close_time_iso)
                = SlugOpenHour(market_pairs[o].polymarket.slug) + 1

\* C10: offsets 1 and 0 give the same venue-B slug at the same clock time;
\* in general the slug names the hour at offset max(requested - 1, 0) and the
\* venue-A window is the one at the requested offset.
C10_OffsetAsymmetry ==
    /\ (market_pairs[0].computed /\ market_pairs[1].computed) =>
           market_pairs[1].polymarket.slug = market_pairs[0].polymarket.slug
    /\ \A o \in Offsets :
           market_pairs[o].computed =>
               /\ SlugOpenHour(market_pairs[o].polymarket.slug)
                      = now.hour + (IF o - 1 > 0 THEN o - 1 ELSE 0)
               /\ IsoLocalHour(market_pairs[o].kalshi.close_time_utc)
                      = now.hour + o + 1

C10_Witness ==
    /\ market_pairs[0].computed /\ market_pairs[1].computed
    /\ market_pairs[2].computed
    /\ market_pairs[1].polymarket.slug = market_pairs[0].polymarket.slug
    /\ market_pairs[2].polymarket.slug # market_pairs[1].polymarket.slug
    /\ now.minute = 55

\* the candidate or discovered venue-A ticker of the pair computed for offset o
TickerOf(o) == market_pairs[o].kalshi.ticker

\* the listed markets whose close_time is the given UTC instant, to the second
ListedClosingAt(iso) ==
    {i \in DOMAIN kalshi_listing : kalshi_listing[i].close_time = iso}

\* C13: the returned venue-A ticker is that of the listed market whose
\* close_time equals the target window's end in UTC to the second; when the
\* listing is empty (or the request failed) or holds no such market, the
\* generated candidate is returned.
C13_DiscoveryRefinement ==
    \A o \in Offsets :
        market_pairs[o].computed =>
            LET window_end == OnTheHour(now.hour + o + 1)
                matching == ListedClosingAt(UtcIso(window_end))
            IN  IF matching # {}
                THEN /\ TickerOf(o).discovered
                     /\ \E i \in matching :
                            TickerOf(o).name = kalshi_listing[i].ticker
                ELSE /\ ~TickerOf(o).discovered
                     /\ TickerOf(o).name =
                            generate_kalshi_ticker(KalshiSeries,
                                                   OnTheHour(now.hour + o))

\* offset 0 is discovered behind a half-hour market; offset 1 falls back
\* although a market closing half an hour after its window's end is listed
C13_Witness ==
    /\ market_pairs[0].computed /\ market_pairs[1].computed
    /\ TickerOf(0).discovered
    /\ Len(kalshi_listing) = 2
    /\ TickerOf(0).name = kalshi_listing[2].ticker
    /\ ~TickerOf(1).discovered
    /\ kalshi_listing[1].close_time =
           [UtcIso(OnTheHour(now.hour + 2)) EXCEPT !.minute = HalfHourMinute]

\* the instant a venue-A ticker names, in local hours since January 1st 00:00
TickerHour(ticker) ==
    HourOfDate(IF ticker.mon = "JAN" THEN 1 ELSE 2, ticker.dd, ticker.hh)

\* C14: the generated candidate returned by get_market_pair encodes the hour
\* of the target window's close time, the instant discovery matches
\* close_time against.
C14_CandidateNamesCloseHour ==
    \A o \in Offsets :
        (market_pairs[o].computed /\ ~TickerOf(o).discovered) =>
            TickerHour(TickerOf(o).name)
                = IsoLocalHour(market_pairs[o].close_time_iso)

(***************************************************************************)
(* Properties of get_target_hours and get_next_tradeable_market (checked   *)
(* under SpecHours)                                                        *)
(***************************************************************************)
\* C11: for every offset o and clock reading, get_target_hours(o) returns the
\* window that starts at the current hour boundary plus o hours, with zero
\* minutes, seconds and microseconds, and ends one hour after its start.
C11_TargetWindow ==
    \A o \in Offsets :
        target_hours[o].computed =>
            LET w == target_hours[o].window
            IN  /\ w.start.hour = now.hour + o
                /\ w.start.minute = 0
                /\ w.start.second = 0
                /\ w.start.microsecond = 0
                /\ w.end = [w.start EXCEPT !.hour = @ + 1]

C11_Witness ==
    /\ now.minute = 59 /\ now.second = 59 /\ now.microsecond = 999999
    /\ target_hours[-1].computed /\ target_hours[MaxOffset].computed
    /\ target_hours[-1].window.end = OnTheHour(now.hour)
    /\ target_hours[MaxOffset].window.start = OnTheHour(now.hour + MaxOffset)

\* C12: get_next_tradeable_market returns the offset-0 window when the
\* clock's minute is below 55 and the offset-1 window from minute 55 on.
C12_NextTradeableWindow ==
    next_tradeable.computed =>
        LET w == next_tradeable.window
            o == IF now.minute < 55 THEN 0 ELSE 1
        IN  /\ w.start = OnTheHour(now.hour + o)
            /\ w.end = OnTheHour(now.hour + o + 1)
            /\ target_hours[o].computed => w = target_hours[o].window

C12_Witness ==
    /\ next_tradeable.computed
    /\ now.minute = 55
    /\ target_hours[1].computed
    /\ next_tradeable.window = target_hours[1].window
    /\ next_tradeable.window.start.hour = now.hour + 1

(***************************************************************************)
(* Properties of get_price_to_beat (checked under SpecPrice)               *)
(***************************************************************************)
\* the source answered with a strictly positive price
Positive(reply) == reply.ok /\ reply.value > 0

\* C15: on a cache miss the sources are asked in the order internal data
\* API, spot-price API, third-party mirror; the first strictly positive
\* value is returned, tagged with its source, and no later source is asked.
C15_FirstPositiveSourceWins ==
    (price_call.made /\ ~price_call.hit) =>
        LET n == Len(price_call.called)
            reply(i) == price_call.replies[SourceOrder[i]]
        IN  /\ n \in 1..Len(SourceOrder)
            /\ price_call.called = SubSeq(SourceOrder, 1, n)
            /\ \A i \in 1..(n - 1) : ~Positive(reply(i))
            /\ Positive(reply(n)) =>
                   /\ price_call.result.price = reply(n).value
                   /\ price_call.result.source = SourceOrder[n]
            /\ ~Positive(reply(n)) => n = Len(SourceOrder)

\* the data API answers a negative price, the spot API a positive one: the
\* mirror, which would have answered too, is not asked
C15_Witness ==
    /\ price_call.made /\ ~price_call.hit
    /\ price_call.replies["polymarket_data_api"] = [ok |-> TRUE, value |-> -1]
    /\ Positive(price_call.replies["cryptocompare_binance"])
    /\ price_call.called = <<"polymarket_data_api", "binance_intl">>
    /\ price_call.result.source = "binance_intl"
    /\ price_call.result.price = 95000

\* C16: if every source answers a non-positive value (negative ones
\* included) or fails, the result's value is exactly zero and its tag is
\* "unknown".
C16_ExhaustedIsZeroUnknown ==
    (/\ price_call.made /\ ~price_call.hit
     /\ \A src \in SourceNames : ~Positive(price_call.replies[src])) =>
        /\ price_call.result.price = 0
        /\ price_call.result.source = "unknown"

\* C17: a call for an asset made in the same wall-clock hour as the previous
\* call for that asset returns the cached result and asks no source.  (A
\* step that leaves the clock alone is a get_price_to_beat call, for the
\* asset price_call names after it.)
C17_SecondCallSameHourIsCached ==
    [][LET a == price_call'.asset
       IN  (/\ price_clock' = price_clock
            /\ last_called[a].called
            /\ last_called[a].at = price_clock) =>
               /\ cache[a].present
               /\ price_call'.hit
               /\ price_call'.called = <<>>
               /\ price_call'.result = cache[a].result
               /\ cache' = cache]_vars

\* the second call of the hour for the asset answers what the first resolved
C17_Witness ==
    /\ price_call.made /\ price_call.hit
    /\ price_call.called = <<>>
    /\ price_call.result.timestamp = price_call.at
    /\ price_call.result.source = "binance_intl"
    /\ last_called[price_call.asset].at = price_clock

\* C18: a cached price is never returned in a wall-clock hour other than the
\* one it was resolved in, however long the gap since the last call.
C18_CachedOnlyInHourOfResolution ==
    (price_call.made /\ price_call.hit) =>
        price_call.result.timestamp = price_call.at

\* C19: a result of exhausted sources (zero / "unknown") is not answered from
\* the cache: the next call for the asset asks the sources again.
C19_FailedResultIsRetried ==
    (price_call.made /\ price_call.result.source = "unknown") =>
        ~price_call.hit /\ price_call.called = SourceOrder

(***************************************************************************)
(* Properties of the evaluation cycle (checked under SpecCycle)            *)
(***************************************************************************)
\* C20: when the resolved reference price is zero / "unknown" the cycle does
\* not evaluate the asset: the engine produces no checks and nothing is
\* published.
C20_NoEvaluationWithoutReference ==
    (response.computed /\ price_result.source = "unknown") =>
        /\ response.checks = <<>>
        /\ response.opportunities = <<>>
        /\ published = <<>>

(***************************************************************************)
(* Properties of _request_with_retry (checked under SpecRetry)             *)
(***************************************************************************)
Is429(reply) == ~reply.raised /\ reply.status = RateLimited

IsFinalResponse(reply) == ~reply.raised /\ reply.status # RateLimited

\* C21: a call makes at most max_retries attempts; the headers are selected
\* again before every attempt after the first; after the k-th attempt is
\* answered 429 the call sleeps base delay * 2^(k-1) plus a jitter below half
\* a second and, unless that was the last attempt, goes on to another one; a
\* response other than 429 ends the call at once and is its result.
C21_RateLimitBackoff ==
    LET n == Len(request.replies)
    IN  /\ n <= max_retries
        /\ request.rotations = IF n = 0 THEN 0 ELSE n - 1
        /\ \A k \in 1..n :
              /\ Is429(request.replies[k]) =>
                    /\ k <= Len(request.sleeps)
                    /\ BaseDelayMs * Pow2(k - 1) <= request.sleeps[k]
                    /\ request.sleeps[k] < BaseDelayMs * Pow2(k - 1)
                                               + JitterBoundMs
                    /\ (k = n /\ k < max_retries => request.pc = "running")
              /\ IsFinalResponse(request.replies[k]) =>
                    /\ k = n
                    /\ request.pc = "returned"
                    /\ request.result = [present |-> TRUE,
                                         status |-> request.replies[k].status]

C21_Witness ==
    /\ Len(request.replies) = max_retries
    /\ \A k \in 1..(max_retries - 1) : Is429(request.replies[k])
    /\ request.replies[max_retries].status = 200
    /\ request.sleeps[3] = BaseDelayMs * 4 + 499
    /\ request.pc = "returned"

\* C22: an attempt that raises (a connection error, a timeout) is the only
\* attempt of its call: the call ends with it.
C22_TransportFailureNotRetried ==
    \A k \in DOMAIN request.replies :
        request.replies[k].raised =>
            Len(request.replies) = 1 /\ request.pc = "raised"

(***************************************************************************)
(* Properties of KalshiStream (checked under SpecKalshiStream)             *)
(***************************************************************************)
PollSucceeded(reply) ==
    ~reply.raised /\ reply.status = 200 /\ reply.has_markets

LastPoll(ks) == ks.polls[Len(ks.polls)]

\* C23: when a polling cycle is over, every poll of the cycle that was
\* answered 429 was followed, in the same cycle, by another request for the
\* same ticker.
C23_PollRetriedOn429 ==
    kalshi_stream.pc = "sleeping" =>
        \A k \in DOMAIN kalshi_stream.polls :
            Is429(kalshi_stream.polls[k].reply) =>
                \E j \in DOMAIN kalshi_stream.polls :
                    /\ j > k
                    /\ kalshi_stream.polls[j].ticker
                           = kalshi_stream.polls[k].ticker

\* C24: a poll answered 200 with "markets" makes the polled asset's list
\* exactly the list of the reply; any other poll leaves that list as it was;
\* every poll leaves the lists of all other assets as they were.
C24_PollReplacesWholeList ==
    [][kalshi_stream.pc = "polling" =>
          LET poll == LastPoll(kalshi_stream')
          IN  \A a \in Assets :
                  kalshi_stream'.latest_data[a] =
                      IF a = poll.asset /\ PollSucceeded(poll.reply)
                      THEN poll.reply.markets
                      ELSE kalshi_stream.latest_data[a]]_vars

C24_Witness ==
    /\ kalshi_stream.polls # <<>>
    /\ LET poll == LastPoll(kalshi_stream)
       IN  /\ PollSucceeded(poll.reply)
           /\ Len(poll.before) = 2
           /\ Len(poll.reply.markets) = 1
           /\ kalshi_stream.latest_data[poll.asset] = poll.reply.markets
           /\ \E a \in Assets \ {poll.asset} :
                  kalshi_stream.latest_data[a] # <<>>

\* C29: every market get_latest_markets returns for an asset belongs to the
\* ticker the asset is registered with now.
C29_OnlyActiveIdentifiers ==
    \A a \in Assets :
        LET markets == get_latest_markets(kalshi_stream, a)
        IN  \A i \in DOMAIN markets :
                markets[i].event_ticker = kalshi_stream.tickers[a]

(***************************************************************************)
(* Properties of PolymarketStream (checked under SpecPolyStream)           *)
(***************************************************************************)
\* the step just taken is a call of add_market
AddMarketStep == polymarket_stream'.last_op.op = "add_market"

\* the step just taken is a step of the subscription loop
LoopStep ==
    polymarket_stream'.last_op.op
        \in {"start", "wake", "connect", "sent", "recv", "timeout", "fail"}

NoDuplicates(seq) ==
    \A i, j \in DOMAIN seq : seq[i] = seq[j] => i = j

IsPrefix(short, long) ==
    /\ Len(short) <= Len(long)
    /\ \A i \in DOMAIN short : short[i] = long[i]

\* the tokens a lookup reply lists
ListedTokens(reply) ==
    UNION {SeqToSet(reply.markets[k].clobTokenIds) : k \in DOMAIN reply.markets}

\* C25: a call of add_market for a slug that is not yet monitored makes the
\* lookup; if the lookup succeeds, the tracked list is the old list followed
\* by the listed tokens that were not tracked, without duplicates, every
\* listed token is mapped to its outcome and the asset, and the slug is
\* monitored.  A call for a monitored slug makes no lookup and leaves
\* token_ids, token_to_outcome and monitored_slugs as they were.
C25_AddMarketOncePerSlug ==
    [][AddMarketStep =>
          LET ps == polymarket_stream
              after == polymarket_stream'
              op == after.last_op
          IN  IF op.slug \in ps.monitored_slugs
              THEN /\ ~op.lookup
                   /\ after.token_ids = ps.token_ids
                   /\ after.token_to_outcome = ps.token_to_outcome
                   /\ after.monitored_slugs = ps.monitored_slugs
              ELSE /\ op.lookup
                   /\ (~op.reply.raised /\ op.reply.status = 200) =>
                         /\ IsPrefix(ps.token_ids, after.token_ids)
                         /\ NoDuplicates(after.token_ids)
                         /\ SeqToSet(after.token_ids)
                                = SeqToSet(ps.token_ids)
                                      \cup ListedTokens(op.reply)
                         /\ \A t \in ListedTokens(op.reply) :
                               after.token_to_outcome[t] =
                                   [present |-> TRUE, outcome |-> t.outcome,
                                    asset |-> op.slug.asset]
                         /\ after.monitored_slugs
                                = ps.monitored_slugs \cup {op.slug}]_vars

C25_Witness ==
    /\ polymarket_stream.last_op.op = "add_market"
    /\ ~polymarket_stream.last_op.lookup
    /\ polymarket_stream.last_op.slug \in polymarket_stream.monitored_slugs
    /\ Len(polymarket_stream.token_ids) = 4
    /\ polymarket_stream.connected

\* C26: when the tracked tokens differ from those of the subscription message
\* of the open connection, the next step of the loop (a message, the receive
\* timeout, an error) closes that connection; a connection is sent exactly
\* one subscription message, which lists exactly the tokens tracked when it
\* is sent, and no message is sent on it afterwards.
C26_ResubscribeByReconnect ==
    [][LET ps == polymarket_stream
           after == polymarket_stream'
       IN  /\ (/\ LoopStep
               /\ ps.connected
               /\ ps.pc \in {"sending", "receiving"}
               /\ SeqToSet(ps.token_ids) # SeqToSet(ps.sent[1]))
                  => /\ after.pc \in {"connecting", "backoff"}
                     /\ ~after.connected
           /\ (after.connected /\ ~ps.connected)
                  => after.sent = <<after.token_ids>>
           /\ (after.connected /\ ps.connected) => after.sent = ps.sent]_vars

C26_Witness ==
    /\ polymarket_stream.last_op.op = "timeout"
    /\ polymarket_stream.pc = "connecting"
    /\ ~polymarket_stream.connected
    /\ Len(polymarket_stream.sent[1]) = 2
    /\ Len(polymarket_stream.token_ids) = 4

\* C27: a step changes the stored quote of a token only if it is the receipt
\* of a message that names the token, and no step removes a stored quote.
C27_QuotesChangeOnlyByNamedUpdate ==
    [][\A t \in PolyTokens :
          /\ polymarket_stream'.prices[t] # polymarket_stream.prices[t]
                => /\ polymarket_stream'.last_op.op = "recv"
                   /\ t \in polymarket_stream'.last_op.named
          /\ polymarket_stream.prices[t].present
                => polymarket_stream'.prices[t].present]_vars

C27_Witness ==
    /\ polymarket_stream.last_op.op = "fail"
    /\ ~polymarket_stream.connected
    /\ Len(polymarket_stream.token_ids) = 4
    /\ Len(polymarket_stream.price_order) = 2
    /\ \E t \in PolyTokens : polymarket_stream.prices[t].ask = 60

(***************************************************************************)
(* Properties of background_aggregator (checked under SpecAggregator)      *)
(***************************************************************************)
StreamNames == {"polymarket", "kalshi"}

\* the tasks of a stream's loop that were created and have not exited
LiveTasks(stream) ==
    {i \in DOMAIN aggregator.tasks :
        /\ aggregator.tasks[i].stream = stream
        /\ aggregator.tasks[i].state # "exited"}

OpenConnections ==
    {i \in DOMAIN aggregator.tasks : aggregator.tasks[i].connected}

\* C28: at every moment each stream has at most one loop task that was
\* created and has not exited, and at most one venue-B connection is open.
C28_OneLoopOneConnection ==
    /\ \A stream \in StreamNames : Cardinality(LiveTasks(stream)) <= 1
    /\ Cardinality(OpenConnections) <= 1

C28_Witness ==
    /\ aggregator.discoveries >= 2
    /\ aggregator.poly_is_running /\ aggregator.kalshi_is_running
    /\ Len(aggregator.tasks) = 2
    /\ Cardinality(OpenConnections) = 1
    /\ 0 \in aggregator.asleep

\* C30: an iteration makes a discovery pass exactly when more than 300
\* seconds have passed since the last one or no asset has a cached window,
\* and it evaluates every asset that has a cached window.
C30_DiscoveryTimerAndFullEvaluation ==
    aggregator.log.ran =>
        /\ aggregator.log.discovered
               <=> \/ aggregator.log.now - aggregator.log.last_discovery_time
                          > DiscoveryPeriod
                   \/ aggregator.log.cached_before = <<>>
        /\ aggregator.log.evaluated = aggregator.log.cached

(***************************************************************************)
(* Further properties of KalshiStream (checked under SpecKalshiStream)     *)
(***************************************************************************)
\* C39: a poll that raises leaves the rest of the cycle's tickers to be
\* polled, and the sleep that ends a cycle in which a poll raised is the
\* normal interval.
C39_RaisedPollSkipsOnlyItsTicker ==
    [][kalshi_stream.pc = "polling" =>
          LET poll == LastPoll(kalshi_stream')
          IN  poll.reply.raised =>
                  /\ kalshi_stream'.queue = Tail(kalshi_stream.queue)
                  /\ kalshi_stream'.pc = "sleeping"
                         => kalshi_stream'.slept = PollIntervalMs]_vars

(***************************************************************************)
(* Further properties of PriceFetcher (checked under SpecPrice)            *)
(***************************************************************************)
\* the tag is "unknown" exactly for a price that is not strictly positive,
\* and any other tag is the name of a source
TagMatchesPrice(result) ==
    /\ result.source = "unknown" <=> ~(result.price > 0)
    /\ result.source # "unknown" => result.source \in SourceNames

\* C40: every result in the cache and every result get_price_to_beat returns
\* is tagged "unknown" if and only if its price is not strictly positive.
C40_UnknownIffNotPositive ==
    /\ \A a \in Assets : cache[a].present => TagMatchesPrice(cache[a].result)
    /\ price_call.made => TagMatchesPrice(price_call.result)

\* a call answered from the cache with a negative price tagged "unknown",
\* while the other asset's cached result has a real source
C40_Witness ==
    /\ price_call.made /\ price_call.hit
    /\ price_call.result.price = -1
    /\ price_call.result.source = "unknown"
    /\ \E a \in Assets :
          /\ cache[a].present
          /\ cache[a].result.source = "binance_intl"
          /\ cache[a].result.price = 95000

(***************************************************************************)
(* Further properties of PolymarketStream (checked under SpecPolyStream)   *)
(***************************************************************************)
\* C37: the subscription message lists every token tracked when connect
\* returns, those added during the connect await included, and whenever the
\* loop goes to wait for a message on an open connection the subscription
\* message of that connection lists exactly the tracked tokens.
C37_NoTokenMissedAcrossConnect ==
    [][LET ps == polymarket_stream
           after == polymarket_stream'
       IN  /\ (LoopStep /\ ps.pc = "connecting" /\ after.connected)
                  => SeqToSet(after.sent[1]) = SeqToSet(after.token_ids)
           /\ (LoopStep /\ after.pc = "receiving")
                  => /\ after.connected
                     /\ SeqToSet(after.sent[1]) = SeqToSet(after.token_ids)]_vars

\* the second slug was added during the connect await: the message sent
\* lists its tokens although current_subscribed_tokens does not
C37_Witness ==
    /\ polymarket_stream.pc = "sending"
    /\ polymarket_stream.connected
    /\ Len(polymarket_stream.sent[1]) = 4
    /\ Cardinality(polymarket_stream.current_subscribed_tokens) = 2

(***************************************************************************)
(* Properties of stop() on PolymarketStream (checked under                 *)
(* SpecPolyShutdown)                                                       *)
(***************************************************************************)
\* stop() has been called on the started stream
PolyStopCalled ==
    ~polymarket_stream.is_running /\ polymarket_stream.pc # "not_started"

\* C36: after stop() has been called on the running stream, no step of its
\* loop opens a connection or sends a subscription message, and every step
\* of the loop ends with the connection closed and the loop exited.
C36_NothingStartedAfterStop ==
    [][(PolyStopCalled /\ LoopStep) =>
          /\ polymarket_stream'.sent = polymarket_stream.sent
          /\ ~polymarket_stream'.connected
          /\ polymarket_stream'.pc = "stopped"]_vars

(***************************************************************************)
(* Properties of stop() against task scheduling (checked under             *)
(* SpecShutdown)                                                           *)
(***************************************************************************)
\* C38: a stream task that was created and had not yet run when stop() was
\* called never becomes a running loop.
C38_StopBeforeFirstRunIsEffective ==
    \A i \in DOMAIN aggregator.tasks :
        aggregator.tasks[i].stopped_early =>
            aggregator.tasks[i].state # "active"

(***************************************************************************)
(* Properties of the quote tables (checked under SpecTables)               *)
(***************************************************************************)
\* the step just taken is a step of the venue-B loop
PolyLoopStepTaken ==
    /\ polymarket_stream' # polymarket_stream
    /\ LoopStep

\* C35: latest_data differs after a step only if the step is a poll of the
\* venue-A loop, prices differs after a step only if the step is a step of
\* the venue-B loop, and a step in which the evaluation phase reads the
\* tables leaves both streams as they were.
C35_SingleWriter ==
    [][/\ kalshi_stream'.latest_data # kalshi_stream.latest_data
             => /\ kalshi_stream.pc = "polling"
                /\ polymarket_stream' = polymarket_stream
       /\ polymarket_stream'.prices # polymarket_stream.prices
             => /\ PolyLoopStepTaken
                /\ kalshi_stream' = kalshi_stream
       /\ latest' # latest
             => /\ kalshi_stream' = kalshi_stream
                /\ polymarket_stream' = polymarket_stream]_vars

\* the evaluation phase has read two venue-A markets and a quote of each
\* outcome, after a later discovery pass and while both loops run
C35_Witness ==
    /\ Len(latest.kalshi) = 2
    /\ latest.poly["Up"].present /\ latest.poly["Down"].present
    /\ polymarket_stream.last_op.op = "add_market"
    /\ kalshi_stream.latest_data["BTC"] = latest.kalshi
    /\ kalshi_stream.is_running /\ polymarket_stream.is_running

(***************************************************************************)
(* Properties of the evaluation phase (checked under SpecEvaluation)       *)
(***************************************************************************)
\* the stream holds no market with a positive strike for the asset
NoPositiveStrike(raw) ==
    \A i \in DOMAIN raw : ~(ToStrike(raw[i].floor_strike).value > 0)

\* the markets of a payload, each converted on its own, that have a
\* positive strike and no malformed field
WellFormedMarkets(raw) ==
    {ConvertMarket(raw[i]).market :
        i \in {j \in DOMAIN raw : /\ ~ConvertMarket(raw[j]).raised
                                  /\ HasStrike(ConvertMarket(raw[j]).market)}}

LogOf(asset) ==
    {i \in DOMAIN evaluation_phase.log :
        evaluation_phase.log[i].asset = asset}
PublishedOf(asset) ==
    {i \in DOMAIN published : published[i].asset = asset}
PhaseOver == evaluation_phase.started /\ evaluation_phase.pending = <<>>

\* C32: an asset for which the venue-A stream holds no market with a
\* positive strike is skipped without an exception, nothing is published
\* for it, and when the phase is over every asset has been evaluated.
C32_NotReadyAssetIsSkipped ==
    \A a \in Assets :
        (evaluation_phase.started
         /\ NoPositiveStrike(evaluation_phase.inputs[a].kalshi_markets_raw))
        => /\ PublishedOf(a) = {}
           /\ \A i \in LogOf(a) :
                  /\ evaluation_phase.log[i].outcome = "skipped"
                  /\ PhaseOver => \A b \in Assets : LogOf(b) # {}

\* C33: when the phase is over every asset has been evaluated, whatever
\* fields of whichever payload were malformed, and each asset's well-formed
\* markets with a positive strike are in what was published for it.
C33_MalformedFieldIsContained ==
    PhaseOver =>
        \A a \in Assets :
            /\ LogOf(a) # {}
            /\ LET good == WellFormedMarkets(
                               evaluation_phase.inputs[a].kalshi_markets_raw)
               IN  good # {} =>
                       \E i \in PublishedOf(a) :
                           good \subseteq Range(published[i].markets)

\* C34: an asset's result is published as soon as its own reference price
\* is resolved: the time other assets' resolutions took does not add to it.
C34_ResolutionDelaysOnlyItsAsset ==
    \A i \in DOMAIN evaluation_phase.log :
        evaluation_phase.log[i].outcome = "published" =>
            evaluation_phase.log[i].at
                <= evaluation_phase.inputs[evaluation_phase.log[i].asset].took

(***************************************************************************)
(* Properties of the discovery pass (checked under SpecRollover)           *)
(***************************************************************************)
\* the hours offset the claim names for a clock reading
RolloverOffset == IF now.minute >= 55 THEN 1 ELSE 0

\* C31: a discovery pass at a clock reading with minute >= 55 asks for the
\* pair at offset 1 and for no other, so that the venue-A window is the
\* next hour's; before minute 55 it asks for offset 0 and for no other,
\* and the window is the current hour's.
C31_SmartRollover ==
    (aggregator.log.ran /\ aggregator.log.discovered) =>
        /\ \A o \in Offsets : market_pairs[o].computed <=> o = RolloverOffset
        /\ LET info == market_pairs[RolloverOffset]
               window_start == OnTheHour(now.hour + RolloverOffset)
               window_end == OnTheHour(now.hour + RolloverOffset + 1)
           IN  /\ info = get_market_pair(now, kalshi_listing, RolloverOffset)
               /\ info.event_ticker
                      = generate_event_ticker(KalshiSeries, window_start)
               /\ info.kalshi.close_time_utc = UtcIso(window_end)

\* a pass at minute 55 has cached both assets for the next hour's window
C31_Witness ==
    /\ aggregator.log.ran /\ aggregator.log.discovered
    /\ now.minute = 55
    /\ market_pairs[1].computed
    /\ aggregator.market_info_cache = MonitoredOrder

====
